---- MODULE Spec2Model ----
(***************************************************************************)
(* DataHub: idempotent ingestion (connectors/finance/csv_import.py,        *)
(* connectors/finance/simplefin.py, connectors/fitness/apple_health.py)    *)
(* and read-time cross-source deduplication (dedup.py).                    *)
(*                                                                         *)
(* The committed tables are sequences in primary-key order.  A connector   *)
(* run is a process p: its loop position, its not-yet-flushed batch (a     *)
(* Python list, unknown to the session until add_all) and its counters.    *)
(* Numeric values stand for Python floats restricted to small integers.    *)
(***************************************************************************)
EXTENDS Integers, Sequences, FiniteSets, TLC

VARIABLES
    transactions,   \* committed rows of table "transactions" (db.py Transaction)
    data_points,    \* committed rows of table "data_points" (db.py DataPoint)
    pc,             \* pc[p]: "idle", "loop", "commit", "done", "raised" / "failed"
    conn,           \* conn[p]: connector of the current / last run of p
    file,           \* file[p]: payload of the current / last run of p
    pos,            \* pos[p]: index of the next payload item
    batch,          \* batch[p]: rows appended but not yet add_all'ed
    added,          \* added[p], skipped[p]: the run's counters
    skipped,
    reimport,       \* reimport[p]: this run repeats the payload of the run before it
    count0,         \* count0[p]: <<Len(transactions), Len(data_points)>> at run start
    writer,         \* writer[i]: the process whose commit inserted transactions[i]
    call,           \* aggregation: name of the last dedup.py function called
    query,          \* aggregation: its arguments
    fetched,        \* aggregation: the records as the SELECT returned them
    result,         \* aggregation: the value the call returned
    pending,        \* DataPoints session.add'ed by the running sync, not yet committed
    log,            \* the SyncLog row of the current / last run_sync (its local "log")
    api_errors,     \* kinds of API failure the running sync has met
    page            \* page / offset counter of the running paginated sync

vars == <<transactions, data_points, pc, conn, file, pos, batch, added, skipped,
          reimport, count0, writer, call, query, fetched, result,
          pending, log, api_errors, page>>

ingestVars == <<pc, conn, file, pos, batch, added, skipped, reimport, count0, writer>>
aggVars == <<call, query, fetched, result>>
apiVars == <<pending, log, api_errors, page>>

(***************************************************************************)
(* Bounds.                                                                 *)
(***************************************************************************)
\* Longest payload (rows of a CSV file, elements of an export, API items).
MaxFileLen == 3
\* batch_size of the connectors (500 / 1000 / 500 in the code), scaled down so
\* that a payload of MaxFileLen items fills a batch and leaves a remainder.
BatchSize == 2
\* Longest payload of each of the two concurrent runs.
MaxConcLen == 2
\* Largest number of DataPoints in a store the aggregation is run on.
MaxRecords == 3

Procs == {1, 2}

(***************************************************************************)
(* Generic helpers.                                                        *)
(***************************************************************************)
SeqsUpTo(S, n) == UNION {[1..k -> S] : k \in 0..n}

RECURSIVE SumSeq(_)
SumSeq(s) == IF s = <<>> THEN 0 ELSE s[1] + SumSeq(Tail(s))

(***************************************************************************)
(* Timestamps: naive datetimes, minute resolution.                         *)
(***************************************************************************)
TS(d, h, m) == [date |-> <<2024, 1, d>>, hour |-> h, minute |-> m]

\* datetime comparison (used by the SQL range filter and ORDER BY).
TsKey(t) == (((t.date[1] * 12 + t.date[2]) * 31 + t.date[3]) * 24 + t.hour) * 60 + t.minute

(***************************************************************************)
(* csv_import.py                                                           *)
(***************************************************************************)
\* A CSV row as csv.DictReader yields it; "shape" says what parse_date /
\* parse_amount / the column lookup make of it: "ok"; "bad_amount" (float()
\* raises ValueError); "short" (the line has fewer fields than the header, so
\* DictReader gives the amount column the value None and parse_amount's
\* amount_str.strip() raises AttributeError).
CsvRow(shape, d, a, desc) == [shape |-> shape, date |-> d, amount |-> a, description |-> desc]

CsvRows == { CsvRow("ok", TS(15, 0, 0), 5, "STARBUCKS"),
             CsvRow("ok", TS(16, 0, 0), 5, "STARBUCKS"),
             CsvRow("bad_amount", TS(15, 0, 0), 0, "STARBUCKS") }

\* A line with fewer fields than the header.
CsvShortRow == CsvRow("short", TS(15, 0, 0), 0, "STARBUCKS")

\* _iter_transactions yields a row unless a required column is missing or
\* parse_date / parse_amount raises ValueError.
CsvWellFormed(row) == row.shape = "ok"

\* _iter_transactions catches (ValueError, KeyError) only: the AttributeError
\* of a short row leaves the generator and import_file.
CsvRaises(row) == row.shape = "short"

\* md5 of "{date.isoformat()}|{amount}|{description}", first 16 hex digits,
\* as the runs of the connectors see it: an id that two rows share exactly
\* when they share date, amount and description.  SpecFingerprint computes
\* the digest itself (generate_transaction_id_hexdigest).
generate_transaction_id(date, amount, description) == <<"md5", date, amount, description>>

\* Mutant: the lookup also filters on source = self.name ("csv_bank"), which
\* no stored row carries (rows are stored under "csv_{bank_format}").
CSVBankConnector_transaction_exists_by_name(source_id) ==
    \E i \in DOMAIN transactions :
        transactions[i].source = "csv_bank" /\ transactions[i].source_id = source_id

\* Mutant: any stored transaction makes the lookup succeed.
CSVBankConnector_transaction_exists_any_row(source_id) ==
    transactions # <<>>

\* CSVBankConnector._transaction_exists: SELECT ... WHERE source_id = :source_id.
\* The query sees committed rows only: batch items were never session.add'ed.
CSVBankConnector_transaction_exists(source_id) ==
    \E i \in DOMAIN transactions : transactions[i].source_id = source_id

Transaction(date, amount, description, source, source_id) ==
    [date |-> date, amount |-> amount, description |-> description,
     source |-> source, source_id |-> source_id]

\* Connectors built with bank_format "chase" and "bofa".
CsvConnectors == {"csv_chase", "csv_bofa"}

\* source=f"csv_{self.bank_format}"
CsvSource(c) == c

(***************************************************************************)
(* apple_health.py                                                         *)
(***************************************************************************)
\* HEALTH_TYPE_MAP, the identifiers the model's exports use.
HEALTH_TYPE_MAP ==
    [t \in {"HKQuantityTypeIdentifierStepCount", "HKQuantityTypeIdentifierHeartRate"} |->
        IF t = "HKQuantityTypeIdentifierStepCount" THEN "steps" ELSE "heart_rate"]

\* An element as _iter_records yields it.  tag is "Record" or "Workout";
\* date_ok / value_ok say whether parse_apple_date / float() succeed on it;
\* source is what get_source_name makes of sourceName / sourceVersion.
AppleRecord(tag, type, date_ok, value_ok, start_date, value, source) ==
    [tag |-> tag, type |-> type, date_ok |-> date_ok, value_ok |-> value_ok,
     start_date |-> start_date, value |-> value, source |-> source]

AppleRows == { AppleRecord("Record", "HKQuantityTypeIdentifierStepCount", TRUE, TRUE,
                           TS(15, 10, 0), 2, "apple_watch"),
               AppleRecord("Workout", "Workout", TRUE, TRUE,
                           TS(15, 10, 0), 1, "apple_watch"),
               AppleRecord("Record", "HKQuantityTypeIdentifierStepCount", TRUE, FALSE,
                           TS(15, 10, 0), 0, "apple_watch") }

\* The try-block of import_file completes (no ValueError / TypeError).
AppleWellFormed(rec) == rec.date_ok /\ rec.value_ok

\* data_type of the DataPoint an element becomes.
AppleDataType(rec) == IF rec.tag = "Workout" THEN "workout" ELSE HEALTH_TYPE_MAP[rec.type]

DataPoint(timestamp, data_type, value, unit, source) ==
    [timestamp |-> timestamp, data_type |-> data_type, value |-> value,
     unit |-> unit, source |-> source]

\* AppleHealthConnector._record_exists: exact match on the natural key, over
\* committed rows only.
_record_exists(timestamp, data_type, source, value) ==
    \E i \in DOMAIN data_points :
        /\ data_points[i].timestamp = timestamp
        /\ data_points[i].data_type = data_type
        /\ data_points[i].source = source
        /\ data_points[i].value = value

(***************************************************************************)
(* simplefin.py                                                            *)
(***************************************************************************)
\* A transaction of the /accounts response (accounts flattened in order).
\* id = "" stands for a missing id; dated: posted or transacted_at is set;
\* amount_ok: float(amount) succeeds.
SimplefinTxn(id, dated, amount_ok, posted, amount) ==
    [id |-> id, dated |-> dated, amount_ok |-> amount_ok, posted |-> posted, amount |-> amount]

SimplefinRows == { SimplefinTxn("t1", TRUE, TRUE, TS(15, 0, 0), 5),
                   SimplefinTxn("t2", TRUE, TRUE, TS(15, 0, 0), 5),
                   SimplefinTxn("", TRUE, TRUE, TS(15, 0, 0), 5) }

\* source_id = f"simplefin_{txn_id}"
SimplefinSourceId(txn_id) == <<"simplefin_", txn_id>>

\* SimpleFINConnector._transaction_exists: source = "simplefin" AND source_id.
SimpleFINConnector_transaction_exists(source_id) ==
    \E i \in DOMAIN transactions :
        transactions[i].source = "simplefin" /\ transactions[i].source_id = source_id

(***************************************************************************)
(* dedup.py                                                                *)
(***************************************************************************)
SOURCE_PRIORITY ==
    [steps           |-> [apple_watch |-> 100, oura |-> 80, apple_health |-> 50, peloton |-> 30],
     active_calories |-> [apple_watch |-> 100, oura |-> 80, apple_health |-> 50, peloton |-> 90],
     heart_rate      |-> [apple_watch |-> 100, oura |-> 90, apple_health |-> 50, peloton |-> 85],
     hrv             |-> [oura |-> 100, apple_watch |-> 90, apple_health |-> 50],
     sleep_minutes   |-> [oura |-> 100, apple_watch |-> 80, apple_health |-> 50],
     distance        |-> [apple_watch |-> 100, oura |-> 70, apple_health |-> 50, peloton |-> 95]]

DEFAULT_PRIORITY == 10

\* Mutant: an unknown source or metric type gets priority 100.
get_source_priority_default_high(data_type, source) ==
    IF data_type \in DOMAIN SOURCE_PRIORITY /\ source \in DOMAIN SOURCE_PRIORITY[data_type]
    THEN SOURCE_PRIORITY[data_type][source]
    ELSE 100

\* SOURCE_PRIORITY.get(data_type, {}).get(source, DEFAULT_PRIORITY)
get_source_priority(data_type, source) ==
    LET type_priorities == IF data_type \in DOMAIN SOURCE_PRIORITY
                           THEN SOURCE_PRIORITY[data_type]
                           ELSE << >>
    IN  IF source \in DOMAIN type_priorities
        THEN type_priorities[source]
        ELSE DEFAULT_PRIORITY

\* Mutant: the end of the range is excluded.
InRange_end_excluded(rec, data_type, start_date, end_date) ==
    /\ rec.data_type = data_type
    /\ TsKey(rec.timestamp) >= TsKey(start_date)
    /\ TsKey(rec.timestamp) < TsKey(end_date)

\* WHERE data_type = :data_type AND timestamp >= :start AND timestamp <= :end
InRange(rec, data_type, start_date, end_date) ==
    /\ rec.data_type = data_type
    /\ TsKey(rec.timestamp) >= TsKey(start_date)
    /\ TsKey(rec.timestamp) <= TsKey(end_date)

\* The rows the SELECT matches, by primary key.
Matching(data_type, start_date, end_date) ==
    {i \in DOMAIN data_points : InRange(data_points[i], data_type, start_date, end_date)}

\* ORDER BY timestamp: every sequence of the matching rows in non-decreasing
\* timestamp order; the order of rows with equal timestamps is not fixed.
FetchOrders(data_type, start_date, end_date) ==
    LET M == Matching(data_type, start_date, end_date)
        n == Cardinality(M)
        perms == {f \in [1..n -> M] :
                     /\ \A i, j \in 1..n : f[i] = f[j] => i = j
                     /\ \A i \in 1..n : i < n =>
                           TsKey(data_points[f[i]].timestamp) <= TsKey(data_points[f[i + 1]].timestamp)}
    IN  {[i \in 1..n |-> data_points[f[i]]] : f \in perms}

\* Position of key in a dict kept as a sequence of entries in insertion order
\* (0: absent).
KeyIndex(dict, key) ==
    IF \E k \in DOMAIN dict : dict[k].key = key
    THEN CHOOSE k \in DOMAIN dict : dict[k].key = key
    ELSE 0

\* Mutant: a record of equal or higher priority replaces the winner.
HourlyUpdate_replace_on_equal(buckets, record, data_type) ==
    LET bucket_key == <<record.timestamp.date, record.timestamp.hour>>
        priority == get_source_priority(data_type, record.source)
        fresh == [key |-> bucket_key, source |-> record.source,
                  priority |-> priority, value |-> record.value]
        k == KeyIndex(buckets, bucket_key)
    IN  IF k = 0 THEN Append(buckets, fresh)
        ELSE IF priority >= buckets[k].priority THEN [buckets EXCEPT ![k] = fresh]
        ELSE buckets

\* Mutant: the first source of a bucket is never replaced.
HourlyUpdate_never_replace(buckets, record, data_type) ==
    LET bucket_key == <<record.timestamp.date, record.timestamp.hour>>
        priority == get_source_priority(data_type, record.source)
        fresh == [key |-> bucket_key, source |-> record.source,
                  priority |-> priority, value |-> record.value]
        k == KeyIndex(buckets, bucket_key)
    IN  IF k = 0 THEN Append(buckets, fresh)
        ELSE IF priority = buckets[k].priority /\ record.source = buckets[k].source
        THEN [buckets EXCEPT ![k].value = @ + record.value]
        ELSE buckets

\* Mutant: one bucket per calendar day (the hour is left out of the key).
HourlyUpdate_day_bucket(buckets, record, data_type) ==
    LET bucket_key == <<record.timestamp.date, 0>>
        priority == get_source_priority(data_type, record.source)
        fresh == [key |-> bucket_key, source |-> record.source,
                  priority |-> priority, value |-> record.value]
        k == KeyIndex(buckets, bucket_key)
    IN  IF k = 0 THEN Append(buckets, fresh)
        ELSE IF priority > buckets[k].priority THEN [buckets EXCEPT ![k] = fresh]
        ELSE IF priority = buckets[k].priority /\ record.source = buckets[k].source
        THEN [buckets EXCEPT ![k].value = @ + record.value]
        ELSE buckets

\* Body of the loop "for record in records" of deduplicate_daily_totals.
HourlyUpdate(buckets, record, data_type) ==
    LET bucket_key == <<record.timestamp.date, record.timestamp.hour>>
        priority == get_source_priority(data_type, record.source)
        fresh == [key |-> bucket_key, source |-> record.source,
                  priority |-> priority, value |-> record.value]
        k == KeyIndex(buckets, bucket_key)
    IN  IF k = 0 THEN Append(buckets, fresh)
        ELSE IF priority > buckets[k].priority THEN [buckets EXCEPT ![k] = fresh]
        ELSE IF priority = buckets[k].priority /\ record.source = buckets[k].source
        THEN [buckets EXCEPT ![k].value = @ + record.value]
        ELSE buckets

\* hourly_buckets after the loop over records.
RECURSIVE hourly_buckets_from(_, _, _)
hourly_buckets_from(buckets, records, data_type) ==
    IF records = <<>> THEN buckets
    ELSE hourly_buckets_from(HourlyUpdate(buckets, Head(records), data_type),
                             Tail(records), data_type)

hourly_buckets(records, data_type) == hourly_buckets_from(<<>>, records, data_type)

\* Character code of a decimal digit; "-" is 45.
Char(digit) == 48 + digit
Dash == Char(-3)

\* Mutant: month and day are not zero-padded.
DateStr_unpadded(date) ==
    <<Char(date[1] \div 1000), Char((date[1] \div 100) % 10),
      Char((date[1] \div 10) % 10), Char(date[1] % 10), Dash>>
    \o (IF date[2] >= 10 THEN <<Char(date[2] \div 10)>> ELSE <<>>) \o <<Char(date[2] % 10), Dash>>
    \o (IF date[3] >= 10 THEN <<Char(date[3] \div 10)>> ELSE <<>>) \o <<Char(date[3] % 10)>>

\* str(date): "YYYY-MM-DD", as the sequence of its character codes.
DateStr(date) ==
    <<Char(date[1] \div 1000), Char((date[1] \div 100) % 10),
      Char((date[1] \div 10) % 10), Char(date[1] % 10), Dash,
      Char(date[2] \div 10), Char(date[2] % 10), Dash,
      Char(date[3] \div 10), Char(date[3] % 10)>>

\* Python's < on str.
RECURSIVE StrLess(_, _)
StrLess(a, b) ==
    IF b = <<>> THEN FALSE
    ELSE IF a = <<>> THEN TRUE
    ELSE IF a[1] # b[1] THEN a[1] < b[1]
    ELSE StrLess(Tail(a), Tail(b))

\* daily_totals[str(date)] += data["value"], over hourly_buckets.items().
RECURSIVE daily_totals_from(_, _)
daily_totals_from(totals, buckets) ==
    IF buckets = <<>> THEN totals
    ELSE LET key == DateStr(Head(buckets).key[1])
             k == KeyIndex(totals, key)
             next == IF k = 0
                     THEN Append(totals, [key |-> key, total |-> Head(buckets).value])
                     ELSE [totals EXCEPT ![k].total = @ + Head(buckets).value]
         IN  daily_totals_from(next, Tail(buckets))

RemoveAt(s, k) == [i \in 1..(Len(s) - 1) |-> IF i < k THEN s[i] ELSE s[i + 1]]

\* sorted(daily_totals.items()): the keys are distinct, so the key decides.
RECURSIVE SortedItems(_)
SortedItems(items) ==
    IF items = <<>> THEN <<>>
    ELSE LET m == CHOOSE i \in DOMAIN items :
                      \A j \in DOMAIN items : j # i => StrLess(items[i].key, items[j].key)
         IN  <<items[m]>> \o SortedItems(RemoveAt(items, m))

\* deduplicate_daily_totals on the records the SELECT returned.
deduplicate_daily_totals(records, data_type) ==
    IF records = <<>> THEN <<>>
    ELSE LET items == SortedItems(daily_totals_from(<<>>, hourly_buckets(records, data_type)))
         IN  [i \in DOMAIN items |-> [date |-> items[i].key, total |-> items[i].total]]

\* sum(d["total"] for d in daily)
RECURSIVE SumTotals(_)
SumTotals(daily) == IF daily = <<>> THEN 0 ELSE Head(daily).total + SumTotals(Tail(daily))

\* Mutant: the total is kept in a module-level accumulator across calls.
get_deduplicated_total_accumulating(records, data_type, start_date, end_date) ==
    SumTotals(deduplicate_daily_totals(records, data_type))
        + (IF call = "get_deduplicated_total" THEN result ELSE 0)

\* get_deduplicated_total; records is what its SELECT over
\* (data_type, start_date, end_date) returned.
get_deduplicated_total(records, data_type, start_date, end_date) ==
    SumTotals(deduplicate_daily_totals(records, data_type))

\* The float n / d as the fraction it rounds; den = 0 stands for the
\* ZeroDivisionError that n / 0 raises.
Quotient(n, d) == [num |-> n, den |-> d]

\* Calendar days from start_date to end_date, both included (same month).
CalendarDays(start_date, end_date) ==
    IF TsKey(end_date) < TsKey(start_date) THEN 0
    ELSE end_date.date[3] - start_date.date[3] + 1

\* Mutant: no guard for an empty list.
get_daily_average_unguarded(records, data_type, start_date, end_date) ==
    LET daily == deduplicate_daily_totals(records, data_type)
    IN  Quotient(SumTotals(daily), Len(daily))

\* Mutant: the mean per calendar day of the range.
get_daily_average_per_calendar_day(records, data_type, start_date, end_date) ==
    LET daily == deduplicate_daily_totals(records, data_type)
    IN  IF daily = <<>> THEN Quotient(0, 1)
        ELSE Quotient(SumTotals(daily), CalendarDays(start_date, end_date))

get_daily_average(records, data_type, start_date, end_date) ==
    LET daily == deduplicate_daily_totals(records, data_type)
    IN  IF daily = <<>> THEN Quotient(0, 1)
        ELSE Quotient(SumTotals(daily), Len(daily))

\* int(record.timestamp.timestamp() / 60): minutes since the epoch; the
\* epoch offset is a multiple of every bucket width of the model.
TsMinutes(t) == TsKey(t)

\* Mutant: the bucket is the clock hour, whatever bucket_minutes is.
BucketUpdate_hour_bucket(buckets, record, data_type, bucket_minutes) ==
    LET bucket_idx == TsMinutes(record.timestamp) \div 60
        priority == get_source_priority(data_type, record.source)
        fresh == [key |-> bucket_idx, timestamp |-> record.timestamp,
                  source |-> record.source, priority |-> priority,
                  value |-> record.value, unit |-> record.unit]
        k == KeyIndex(buckets, bucket_idx)
    IN  IF k = 0 THEN Append(buckets, fresh)
        ELSE IF priority > buckets[k].priority THEN [buckets EXCEPT ![k] = fresh]
        ELSE IF priority = buckets[k].priority /\ record.source = buckets[k].source
        THEN [buckets EXCEPT ![k].value = @ + record.value]
        ELSE buckets

\* Body of the loop of deduplicate_records_by_priority.
BucketUpdate(buckets, record, data_type, bucket_minutes) ==
    LET bucket_idx == TsMinutes(record.timestamp) \div bucket_minutes
        priority == get_source_priority(data_type, record.source)
        fresh == [key |-> bucket_idx, timestamp |-> record.timestamp,
                  source |-> record.source, priority |-> priority,
                  value |-> record.value, unit |-> record.unit]
        k == KeyIndex(buckets, bucket_idx)
    IN  IF k = 0 THEN Append(buckets, fresh)
        ELSE IF priority > buckets[k].priority THEN [buckets EXCEPT ![k] = fresh]
        ELSE IF priority = buckets[k].priority /\ record.source = buckets[k].source
        THEN [buckets EXCEPT ![k].value = @ + record.value]
        ELSE buckets

RECURSIVE buckets_from(_, _, _, _)
buckets_from(buckets, records, data_type, bucket_minutes) ==
    IF records = <<>> THEN buckets
    ELSE buckets_from(BucketUpdate(buckets, Head(records), data_type, bucket_minutes),
                      Tail(records), data_type, bucket_minutes)

\* deduplicate_records_by_priority: list(buckets.values()).
deduplicate_records_by_priority(records, data_type, bucket_minutes) ==
    IF records = <<>> THEN <<>>
    ELSE LET buckets == buckets_from(<<>>, records, data_type, bucket_minutes)
         IN  [i \in DOMAIN buckets |->
                 [timestamp |-> buckets[i].timestamp, source |-> buckets[i].source,
                  priority |-> buckets[i].priority, value |-> buckets[i].value,
                  unit |-> buckets[i].unit]]

(***************************************************************************)
(* Connector runs.                                                         *)
(***************************************************************************)
Connectors == CsvConnectors \cup {"apple_health", "simplefin"}

Rows(c) == IF c \in CsvConnectors THEN CsvRows
           ELSE IF c = "apple_health" THEN AppleRows ELSE SimplefinRows

Files(c) == SeqsUpTo(Rows(c), MaxFileLen)

\* Entry of import_file / sync: counters and batch initialised.
StartRun(p, c, f) ==
    /\ pc[p] \in {"idle", "done"}
    /\ reimport' = [reimport EXCEPT ![p] = (pc[p] = "done" /\ conn[p] = c /\ file[p] = f)]
    /\ count0' = [count0 EXCEPT ![p] = <<Len(transactions), Len(data_points)>>]
    /\ pc' = [pc EXCEPT ![p] = "loop"]
    /\ conn' = [conn EXCEPT ![p] = c]
    /\ file' = [file EXCEPT ![p] = f]
    /\ pos' = [pos EXCEPT ![p] = 1]
    /\ batch' = [batch EXCEPT ![p] = <<>>]
    /\ added' = [added EXCEPT ![p] = 0]
    /\ skipped' = [skipped EXCEPT ![p] = 0]
    /\ UNCHANGED <<transactions, data_points, writer>>
    /\ UNCHANGED aggVars
    /\ UNCHANGED apiVars

\* "if len(batch) >= batch_size" at the end of a loop iteration.
AfterAppend(b) == IF Len(b) >= BatchSize THEN "commit" ELSE "loop"

\* One iteration of the loop of CSVBankConnector.import_file, up to the flush test.
CSVBankConnector_import_file_row(p) ==
    /\ pc[p] = "loop"
    /\ conn[p] \in CsvConnectors
    /\ pos[p] <= Len(file[p])
    /\ LET row == file[p][pos[p]]
           source_id == generate_transaction_id(row.date, row.amount, row.description)
       IN  IF CsvRaises(row)
           THEN /\ pc' = [pc EXCEPT ![p] = "raised"]
                /\ UNCHANGED <<batch, added, skipped>>
           ELSE IF ~CsvWellFormed(row)
           THEN UNCHANGED <<batch, added, skipped, pc>>
           ELSE IF CSVBankConnector_transaction_exists(source_id)
           THEN /\ skipped' = [skipped EXCEPT ![p] = @ + 1]
                /\ UNCHANGED <<batch, added, pc>>
           ELSE LET b == Append(batch[p], Transaction(row.date, row.amount, row.description,
                                                      CsvSource(conn[p]), source_id))
                IN  /\ batch' = [batch EXCEPT ![p] = b]
                    /\ added' = [added EXCEPT ![p] = @ + 1]
                    /\ pc' = [pc EXCEPT ![p] = AfterAppend(b)]
                    /\ UNCHANGED skipped
    /\ pos' = [pos EXCEPT ![p] = @ + 1]
    /\ UNCHANGED <<transactions, data_points, conn, file, reimport, count0, writer>>
    /\ UNCHANGED aggVars
    /\ UNCHANGED apiVars

\* One iteration of the loop of AppleHealthConnector.import_file.
AppleHealthConnector_import_file_record(p) ==
    /\ pc[p] = "loop"
    /\ conn[p] = "apple_health"
    /\ pos[p] <= Len(file[p])
    /\ LET rec == file[p][pos[p]]
           data_type == AppleDataType(rec)
       IN  IF ~AppleWellFormed(rec)
           THEN UNCHANGED <<batch, added, skipped, pc>>
           ELSE IF _record_exists(rec.start_date, data_type, rec.source, rec.value)
           THEN /\ skipped' = [skipped EXCEPT ![p] = @ + 1]
                /\ UNCHANGED <<batch, added, pc>>
           ELSE LET b == Append(batch[p],
                                DataPoint(rec.start_date, data_type, rec.value,
                                          IF rec.tag = "Workout" THEN "min" ELSE "count",
                                          rec.source))
                IN  /\ batch' = [batch EXCEPT ![p] = b]
                    /\ added' = [added EXCEPT ![p] = @ + 1]
                    /\ pc' = [pc EXCEPT ![p] = AfterAppend(b)]
                    /\ UNCHANGED skipped
    /\ pos' = [pos EXCEPT ![p] = @ + 1]
    /\ UNCHANGED <<transactions, data_points, conn, file, reimport, count0, writer>>
    /\ UNCHANGED aggVars
    /\ UNCHANGED apiVars

\* One iteration of the inner loop of SimpleFINConnector.sync.
SimpleFINConnector_sync_txn(p) ==
    /\ pc[p] = "loop"
    /\ conn[p] = "simplefin"
    /\ pos[p] <= Len(file[p])
    /\ LET txn == file[p][pos[p]]
           source_id == SimplefinSourceId(txn.id)
       IN  IF txn.id = ""
           THEN UNCHANGED <<batch, added, skipped, pc>>
           ELSE IF SimpleFINConnector_transaction_exists(source_id)
           THEN /\ skipped' = [skipped EXCEPT ![p] = @ + 1]
                /\ UNCHANGED <<batch, added, pc>>
           ELSE IF ~txn.dated \/ ~txn.amount_ok
           THEN UNCHANGED <<batch, added, skipped, pc>>
           ELSE LET b == Append(batch[p], Transaction(txn.posted, txn.amount, "",
                                                      "simplefin", source_id))
                IN  /\ batch' = [batch EXCEPT ![p] = b]
                    /\ added' = [added EXCEPT ![p] = @ + 1]
                    /\ pc' = [pc EXCEPT ![p] = AfterAppend(b)]
                    /\ UNCHANGED skipped
    /\ pos' = [pos EXCEPT ![p] = @ + 1]
    /\ UNCHANGED <<transactions, data_points, conn, file, reimport, count0, writer>>
    /\ UNCHANGED aggVars
    /\ UNCHANGED apiVars

\* Mutant: the flush stores the first row of the batch only.
AddAllCommit_first_only(p) ==
    IF conn[p] = "apple_health"
    THEN /\ data_points' = data_points \o SubSeq(batch[p], 1, 1)
         /\ UNCHANGED <<transactions, writer>>
    ELSE /\ transactions' = transactions \o SubSeq(batch[p], 1, 1)
         /\ writer' = writer \o <<p>>
         /\ UNCHANGED data_points

\* session.add_all(batch); session.commit(): the batch becomes committed rows.
AddAllCommit(p) ==
    IF conn[p] = "apple_health"
    THEN /\ data_points' = data_points \o batch[p]
         /\ UNCHANGED <<transactions, writer>>
    ELSE /\ transactions' = transactions \o batch[p]
         /\ writer' = writer \o [i \in 1..Len(batch[p]) |-> p]
         /\ UNCHANGED data_points

\* The flush inside the loop: "if len(batch) >= batch_size".
FlushBatch(p) ==
    /\ pc[p] = "commit"
    /\ AddAllCommit(p)
    /\ batch' = [batch EXCEPT ![p] = <<>>]
    /\ pc' = [pc EXCEPT ![p] = "loop"]
    /\ UNCHANGED <<conn, file, pos, added, skipped, reimport, count0>>
    /\ UNCHANGED aggVars
    /\ UNCHANGED apiVars

\* Mutant: the rows still in the batch after the loop are not flushed.
FinishRun_no_final_flush(p) ==
    /\ pc[p] = "loop"
    /\ pos[p] > Len(file[p])
    /\ batch' = [batch EXCEPT ![p] = <<>>]
    /\ pc' = [pc EXCEPT ![p] = "done"]
    /\ UNCHANGED <<transactions, data_points, writer>>
    /\ UNCHANGED <<conn, file, pos, added, skipped, reimport, count0>>
    /\ UNCHANGED aggVars
    /\ UNCHANGED apiVars

\* After the loop: "if batch:" final flush, then return added, skipped.
FinishRun(p) ==
    /\ pc[p] = "loop"
    /\ pos[p] > Len(file[p])
    /\ IF batch[p] # <<>>
       THEN AddAllCommit(p)
       ELSE UNCHANGED <<transactions, data_points, writer>>
    /\ batch' = [batch EXCEPT ![p] = <<>>]
    /\ pc' = [pc EXCEPT ![p] = "done"]
    /\ UNCHANGED <<conn, file, pos, added, skipped, reimport, count0>>
    /\ UNCHANGED aggVars
    /\ UNCHANGED apiVars

\* The process is stopped inside the loop of import_file (KeyboardInterrupt,
\* kill): committed batches stay, the batch list is lost with the process.
Interrupt(p) ==
    /\ pc[p] \in {"loop", "commit"}
    /\ pc' = [pc EXCEPT ![p] = "interrupted"]
    /\ UNCHANGED <<transactions, data_points, writer, conn, file, pos, batch, added,
                   skipped, reimport, count0>>
    /\ UNCHANGED aggVars
    /\ UNCHANGED apiVars

\* The caller has consumed (added, skipped) or the exception; the next call
\* is a fresh one.
Return(p) ==
    /\ pc[p] \in {"done", "raised", "interrupted"}
    /\ pc' = [pc EXCEPT ![p] = "idle"]
    /\ file' = [file EXCEPT ![p] = <<>>]
    /\ pos' = [pos EXCEPT ![p] = 1]
    /\ added' = [added EXCEPT ![p] = 0]
    /\ skipped' = [skipped EXCEPT ![p] = 0]
    /\ reimport' = [reimport EXCEPT ![p] = FALSE]
    /\ count0' = [count0 EXCEPT ![p] = <<0, 0>>]
    /\ batch' = [batch EXCEPT ![p] = <<>>]
    /\ UNCHANGED <<transactions, data_points, writer, conn>>
    /\ UNCHANGED aggVars
    /\ UNCHANGED apiVars

\* The connector objects are constructed (bank_format fixed per csv object),
\* the tables are empty, no run has started.
EmptyStore ==
    /\ transactions = <<>>
    /\ data_points = <<>>
    /\ writer = <<>>

RunsIdle ==
    /\ pc = [p \in Procs |-> "idle"]
    /\ file = [p \in Procs |-> <<>>]
    /\ pos = [p \in Procs |-> 1]
    /\ batch = [p \in Procs |-> <<>>]
    /\ added = [p \in Procs |-> 0]
    /\ skipped = [p \in Procs |-> 0]
    /\ reimport = [p \in Procs |-> FALSE]
    /\ count0 = [p \in Procs |-> <<0, 0>>]

AggIdle ==
    /\ call = "none"
    /\ query = <<>>
    /\ fetched = <<>>
    /\ result = <<>>

\* No run_sync has been called: there is no SyncLog row to speak of.
NoLog == [status |-> "none", records_added |-> 0, records_updated |-> 0,
          error_message |-> "", completed_at |-> "None"]

\* A fresh session (nothing added to it), no sync logged yet.
ApiIdle ==
    /\ pending = <<>>
    /\ log = NoLog
    /\ api_errors = {}
    /\ page = 0

(***************************************************************************)
(* Spec: connector runs one at a time (the single-writer assumption).      *)
(***************************************************************************)
\* A behaviour follows the runs of one connector class on one store; csv
\* connectors of both bank formats take turns on it.
Family(c) == IF c \in CsvConnectors THEN CsvConnectors ELSE {c}

Init ==
    /\ EmptyStore
    /\ RunsIdle
    /\ AggIdle
    /\ ApiIdle
    /\ \E c \in Connectors : conn = [p \in Procs |-> c]

Next ==
    \/ \E c \in Family(conn[1]) : \E f \in Files(c) : pc[1] = "idle" /\ StartRun(1, c, f)
    \/ pc[1] = "done" /\ StartRun(1, conn[1], file[1])
    \/ Return(1)
    \/ CSVBankConnector_import_file_row(1)
    \/ AppleHealthConnector_import_file_record(1)
    \/ SimpleFINConnector_sync_txn(1)
    \/ FlushBatch(1)
    \/ FinishRun(1)

Spec == Init /\ [][Next]_vars

(***************************************************************************)
(* SpecConc: two CSV imports against the same store, their existence       *)
(* checks and commits interleaved.  Each payload lists a row at most once, *)
(* so that a duplicate in the store can only come from the interleaving.   *)
(***************************************************************************)
ConcFiles == {f \in SeqsUpTo(CsvRows, MaxConcLen) :
                 \A i, j \in DOMAIN f : f[i] = f[j] => i = j}

InitConc ==
    /\ EmptyStore
    /\ RunsIdle
    /\ AggIdle
    /\ ApiIdle
    /\ conn = [p \in Procs |-> "csv_chase"]

NextConc ==
    \E p \in Procs :
        \/ \E f \in ConcFiles : pc[p] = "idle" /\ StartRun(p, "csv_chase", f)
        \/ Return(p)
        \/ CSVBankConnector_import_file_row(p)
        \/ FlushBatch(p)
        \/ FinishRun(p)

SpecConc == InitConc /\ [][NextConc]_vars

(***************************************************************************)
(* SpecAgg: the functions of dedup.py called on stores of up to MaxRecords *)
(* DataPoints.  The store is what earlier imports and syncs left behind;   *)
(* no run is in progress (the read path assumes serialized access).        *)
(***************************************************************************)
DedupTimes == <<TS(9, 10, 0), TS(9, 10, 30), TS(9, 11, 0), TS(10, 10, 0)>>

Steps(time, source, value) == DataPoint(DedupTimes[time], "steps", value, "count", source)

\* The DataPoints the stores are drawn from.  apple_watch and apple_health
\* are configured for "steps" (100, 50); garmin and fitbit are not.  The
\* first two times share an hour, the third is another hour of that day, the
\* fourth another day.
DedupUniverse ==
    << Steps(1, "apple_watch", 1), Steps(1, "apple_watch", 2), Steps(1, "apple_health", 1),
       Steps(1, "garmin", 1), Steps(1, "fitbit", 1),
       Steps(2, "apple_watch", 1), Steps(2, "garmin", 1), Steps(2, "fitbit", 1),
       Steps(3, "apple_watch", 1), Steps(3, "garmin", 1),
       Steps(4, "apple_watch", 1), Steps(4, "garmin", 1),
       DataPoint(DedupTimes[1], "heart_rate", 1, "bpm", "apple_watch") >>

\* One store per multiset of at most MaxRecords DataPoints (the order of the
\* rows is immaterial to the SELECT, whose ties are broken arbitrarily).
DedupStores ==
    {[i \in DOMAIN s |-> DedupUniverse[s[i]]] :
        s \in {t \in SeqsUpTo(DOMAIN DedupUniverse, MaxRecords) :
                  \A i \in DOMAIN t : i < Len(t) => t[i] <= t[i + 1]}}

QueryTypes == {"steps", "heart_rate"}
QueryStarts == {DedupTimes[1], DedupTimes[2]}
QueryEnds == {DedupTimes[3], DedupTimes[4]}
BucketWidths == {30, 60}

Query(data_type, start_date, end_date) ==
    [data_type |-> data_type, start_date |-> start_date, end_date |-> end_date]

deduplicate_daily_totals_call(data_type, start_date, end_date) ==
    /\ call = "none"
    /\ \E records \in FetchOrders(data_type, start_date, end_date) :
          /\ fetched' = records
          /\ result' = deduplicate_daily_totals(records, data_type)
    /\ call' = "deduplicate_daily_totals"
    /\ query' = Query(data_type, start_date, end_date)
    /\ UNCHANGED <<transactions, data_points, conn>>
    /\ UNCHANGED ingestVars
    /\ UNCHANGED apiVars

get_deduplicated_total_call(data_type, start_date, end_date) ==
    /\ call = "none"
    /\ \E records \in FetchOrders(data_type, start_date, end_date) :
          /\ fetched' = records
          /\ result' = get_deduplicated_total(records, data_type, start_date, end_date)
    /\ call' = "get_deduplicated_total"
    /\ query' = Query(data_type, start_date, end_date)
    /\ UNCHANGED <<transactions, data_points, conn>>
    /\ UNCHANGED ingestVars
    /\ UNCHANGED apiVars

get_daily_average_call(data_type, start_date, end_date) ==
    /\ call = "none"
    /\ \E records \in FetchOrders(data_type, start_date, end_date) :
          /\ fetched' = records
          /\ result' = get_daily_average(records, data_type, start_date, end_date)
    /\ call' = "get_daily_average"
    /\ query' = Query(data_type, start_date, end_date)
    /\ UNCHANGED <<transactions, data_points, conn>>
    /\ UNCHANGED ingestVars
    /\ UNCHANGED apiVars

deduplicate_records_by_priority_call(data_type, start_date, end_date, bucket_minutes) ==
    /\ call = "none"
    /\ \E records \in FetchOrders(data_type, start_date, end_date) :
          /\ fetched' = records
          /\ result' = deduplicate_records_by_priority(records, data_type, bucket_minutes)
    /\ call' = "deduplicate_records_by_priority"
    /\ query' = [data_type |-> data_type, start_date |-> start_date,
                 end_date |-> end_date, bucket_minutes |-> bucket_minutes]
    /\ UNCHANGED <<transactions, data_points, conn>>
    /\ UNCHANGED ingestVars
    /\ UNCHANGED apiVars

get_source_priority_call(data_type, source) ==
    /\ call = "none"
    /\ call' = "get_source_priority"
    /\ query' = [data_type |-> data_type, source |-> source]
    /\ fetched' = <<>>
    /\ result' = get_source_priority(data_type, source)
    /\ UNCHANGED <<transactions, data_points, conn>>
    /\ UNCHANGED ingestVars
    /\ UNCHANGED apiVars

\* The caller makes the same call again over the unchanged store.  SQLite
\* answers the same statement over an unchanged database with the same rows
\* in the same order; buckets and totals are built anew.
AggRepeat ==
    /\ call \in {"deduplicate_daily_totals", "get_deduplicated_total", "get_daily_average",
                 "deduplicate_records_by_priority"}
    /\ "again" \notin DOMAIN query
    /\ query' = [again |-> TRUE] @@ query
    /\ call' = call
    /\ fetched' = fetched
    /\ result' = CASE call = "deduplicate_daily_totals" ->
                         deduplicate_daily_totals(fetched, query.data_type)
                    [] call = "get_deduplicated_total" ->
                         get_deduplicated_total(fetched, query.data_type,
                                                query.start_date, query.end_date)
                    [] call = "get_daily_average" ->
                         get_daily_average(fetched, query.data_type,
                                           query.start_date, query.end_date)
                    [] OTHER ->
                         deduplicate_records_by_priority(fetched, query.data_type,
                                                         query.bucket_minutes)
    /\ UNCHANGED <<transactions, data_points, conn>>
    /\ UNCHANGED ingestVars
    /\ UNCHANGED apiVars

\* The caller has the value; the query-scoped structures are discarded.
AggReturn ==
    /\ call # "none"
    /\ call' = "none"
    /\ query' = <<>>
    /\ fetched' = <<>>
    /\ result' = <<>>
    /\ UNCHANGED <<transactions, data_points, conn>>
    /\ UNCHANGED ingestVars
    /\ UNCHANGED apiVars

InitAgg ==
    /\ transactions = <<>>
    /\ writer = <<>>
    /\ data_points \in DedupStores
    /\ RunsIdle
    /\ AggIdle
    /\ ApiIdle
    /\ conn = [p \in Procs |-> "apple_health"]

NextAgg ==
    \/ \E data_type \in QueryTypes, start_date \in QueryStarts, end_date \in QueryEnds :
          \/ deduplicate_daily_totals_call(data_type, start_date, end_date)
          \/ get_deduplicated_total_call(data_type, start_date, end_date)
          \/ get_daily_average_call(data_type, start_date, end_date)
          \/ \E bucket_minutes \in BucketWidths :
                deduplicate_records_by_priority_call(data_type, start_date, end_date,
                                                     bucket_minutes)
    \/ AggRepeat
    \/ AggReturn

SpecAgg == InitAgg /\ [][NextAgg]_vars

(***************************************************************************)
(* SpecPriority: get_source_priority on every data type of db.py DataType  *)
(* and a set of known and unknown sources.                                 *)
(***************************************************************************)
DataTypes ==
    {"steps", "heart_rate", "hrv", "active_calories", "resting_calories", "distance",
     "floors", "sleep_minutes", "sleep_stage", "weight", "body_fat", "workout", "spo2",
     "respiratory_rate", "readiness", "strain", "strength_workout", "strength_exercise",
     "volume"}

PrioritySources == {"apple_watch", "oura", "apple_health", "peloton", "tonal", "garmin"}

InitPriority ==
    /\ EmptyStore
    /\ RunsIdle
    /\ AggIdle
    /\ ApiIdle
    /\ conn = [p \in Procs |-> "apple_health"]

NextPriority ==
    \/ \E data_type \in DataTypes, source \in PrioritySources :
          get_source_priority_call(data_type, source)
    \/ AggReturn

SpecPriority == InitPriority /\ [][NextPriority]_vars

(***************************************************************************)
(* SpecImport: file imports whose payload may hold any malformed row, the  *)
(* short CSV line included, and which may be interrupted.                  *)
(***************************************************************************)
MalformedRows(c) == IF c \in CsvConnectors THEN CsvRows \cup {CsvShortRow} ELSE AppleRows

InitImport ==
    /\ EmptyStore
    /\ RunsIdle
    /\ AggIdle
    /\ ApiIdle
    /\ \E c \in {"csv_chase", "apple_health"} : conn = [p \in Procs |-> c]

NextImport ==
    \/ \E f \in SeqsUpTo(MalformedRows(conn[1]), MaxFileLen) :
          pc[1] = "idle" /\ StartRun(1, conn[1], f)
    \/ Return(1)
    \/ CSVBankConnector_import_file_row(1)
    \/ AppleHealthConnector_import_file_record(1)
    \/ FlushBatch(1)
    \/ FinishRun(1)
    \/ Interrupt(1)

SpecImport == InitImport /\ [][NextImport]_vars

(***************************************************************************)
(* API connectors: base.py run_sync, oura.py, peloton.py, tonal.py.        *)
(* Strings built by f-strings are sequences of tokens, concatenated as the *)
(* code concatenates them.  A native id of an API (a UUID, a hex id, a     *)
(* "YYYY-MM-DD" day) is one token; <<>> is the empty / missing id.         *)
(***************************************************************************)
\* Longest API response of a sync (all its lists / pages together).
MaxApiLen == 2
\* Longest description handed to generate_transaction_id, in characters.
MaxDescLen == 1

\* A DataPoint with the source_id column set.
ApiDataPoint(timestamp, data_type, value, unit, source, source_id) ==
    [timestamp |-> timestamp, data_type |-> data_type, value |-> value,
     unit |-> unit, source |-> source, source_id |-> source_id]

\* What a SELECT of the running session sees: the committed rows and, because
\* the session autoflushes before a query, the rows added to it so far.
SessionView == data_points \o pending

\* BaseConnector._start_sync: SyncLog(status="running"), add, commit;
\* completed_at keeps its column default None.
BaseConnector_start_sync ==
    [status |-> "running", records_added |-> 0, records_updated |-> 0, error_message |-> "",
     completed_at |-> "None"]

\* BaseConnector._complete_sync
BaseConnector_complete_sync(l, n_added, n_updated) ==
    [l EXCEPT !.completed_at = "now", !.status = "success",
              !.records_added = n_added, !.records_updated = n_updated]

\* BaseConnector._fail_sync
BaseConnector_fail_sync(l, error) ==
    [l EXCEPT !.completed_at = "now", !.status = "failed", !.error_message = error]

(***************************************************************************)
(* oura.py                                                                 *)
(***************************************************************************)
\* A record of the /sleep response.  bedtime_start is "ok" (an ISO datetime,
\* parsed to timestamp), "absent" or "malformed" (fromisoformat raises
\* ValueError); average_hrv = 0 stands for a missing / falsy value.
OuraSleep(record_id, bedtime_start, timestamp, total_sleep, average_hrv) ==
    [kind |-> "sleep", id |-> record_id, bedtime_start |-> bedtime_start,
     timestamp |-> timestamp, total_sleep |-> total_sleep, average_hrv |-> average_hrv]

\* A record of the /daily_readiness response; has_score: score is not None.
OuraReadiness(day, has_score, score) ==
    [kind |-> "readiness", id |-> day, has_score |-> has_score, score |-> score]

\* A record of the /daily_activity response; 0 stands for a missing / falsy value.
OuraActivity(day, steps, active_calories) ==
    [kind |-> "activity", id |-> day, steps |-> steps, active_calories |-> active_calories]

\* datetime.strptime(day, "%Y-%m-%d") on the days of the model.
OuraDay(day) == IF day = <<"2024-01-15">> THEN TS(15, 0, 0) ELSE TS(16, 0, 0)

\* The same sleep session and the same day reported with different values,
\* and a sleep record whose bedtime does not parse.
OuraRows == { OuraSleep(<<"a">>, "ok", TS(15, 22, 0), 7, 0),
              OuraSleep(<<"a">>, "ok", TS(15, 22, 0), 8, 5),
              OuraSleep(<<"b">>, "malformed", TS(15, 22, 0), 7, 0),
              OuraReadiness(<<"2024-01-15">>, TRUE, 1),
              OuraActivity(<<"2024-01-15">>, 1, 0),
              OuraActivity(<<"2024-01-15">>, 2, 3) }

\* sync saves the sleep list, then the readiness list, then the activity list.
OuraKindOrder(kind) == CASE kind = "sleep" -> 1 [] kind = "readiness" -> 2 [] OTHER -> 3

OuraKinds == {"sleep", "readiness", "activity"}

\* f"sleep_{record_id}", f"sleep_hrv_{record_id}", f"readiness_{day}",
\* f"activity_steps_{day}", f"activity_cal_{day}"
OuraSleepId(record_id) == <<"sleep_">> \o record_id
OuraSleepHrvId(record_id) == <<"sleep_", "hrv_">> \o record_id
OuraReadinessId(day) == <<"readiness_">> \o day
OuraActivityStepsId(day) == <<"activity_", "steps_">> \o day
OuraActivityCalId(day) == <<"activity_", "cal_">> \o day

\* OuraConnector._record_exists
OuraConnector_record_exists(source_id) ==
    \E i \in DOMAIN SessionView :
        SessionView[i].source = "oura" /\ SessionView[i].source_id = source_id

\* One iteration of the loop of _save_sleep_data: the DataPoints it adds to
\* the session (the early "continue"s add none).
OuraConnector_save_sleep_data(record) ==
    IF record.id = <<>> \/ OuraConnector_record_exists(OuraSleepId(record.id)) THEN <<>>
    ELSE IF record.bedtime_start = "absent" THEN <<>>
    ELSE <<ApiDataPoint(record.timestamp, "sleep_minutes", record.total_sleep, "min",
                        "oura", OuraSleepId(record.id))>>
         \o (IF record.average_hrv # 0
             THEN <<ApiDataPoint(record.timestamp, "hrv", record.average_hrv, "ms",
                                 "oura", OuraSleepHrvId(record.id))>>
             ELSE <<>>)

\* The iteration raises: datetime.fromisoformat on a malformed bedtime_start.
OuraConnector_save_sleep_data_raises(record) ==
    /\ record.id # <<>>
    /\ ~OuraConnector_record_exists(OuraSleepId(record.id))
    /\ record.bedtime_start = "malformed"

\* One iteration of the loop of _save_readiness_data.
OuraConnector_save_readiness_data(record) ==
    IF record.id = <<>> THEN <<>>
    ELSE IF OuraConnector_record_exists(OuraReadinessId(record.id)) THEN <<>>
    ELSE IF ~record.has_score THEN <<>>
    ELSE <<ApiDataPoint(OuraDay(record.id), "readiness", record.score, "score",
                        "oura", OuraReadinessId(record.id))>>

\* One iteration of the loop of _save_activity_data.  The two source ids
\* differ, so adding the steps does not change the check for the calories.
OuraConnector_save_activity_data(record) ==
    IF record.id = <<>> THEN <<>>
    ELSE (IF record.steps # 0 /\ ~OuraConnector_record_exists(OuraActivityStepsId(record.id))
          THEN <<ApiDataPoint(OuraDay(record.id), "steps", record.steps, "steps",
                              "oura", OuraActivityStepsId(record.id))>>
          ELSE <<>>)
         \o (IF record.active_calories # 0
                /\ ~OuraConnector_record_exists(OuraActivityCalId(record.id))
             THEN <<ApiDataPoint(OuraDay(record.id), "active_calories",
                                 record.active_calories, "kcal",
                                 "oura", OuraActivityCalId(record.id))>>
             ELSE <<>>)

\* The responses of one sync as the list sync iterates: the sleep records,
\* then the readiness records, then the activity records.
OuraResponses ==
    {f \in SeqsUpTo(OuraRows, MaxApiLen) :
        \A i \in DOMAIN f : i < Len(f) => OuraKindOrder(f[i].kind) <= OuraKindOrder(f[i + 1].kind)}

\* run_sync of a connector whose first API call raises: the Oura token is
\* not configured (_get_client raises ValueError), the Peloton / Tonal
\* authentication fails (_authenticate raises ValueError).  _start_sync, then
\* _fail_sync.
BaseConnector_run_sync_auth_fails ==
    /\ pc[1] = "idle"
    /\ conn[1] \in {"oura", "peloton", "tonal"}
    /\ pc' = [pc EXCEPT ![1] = "failed"]
    /\ log' = BaseConnector_fail_sync(BaseConnector_start_sync, "ValueError")
    /\ api_errors' = {"auth"}
    /\ count0' = [count0 EXCEPT ![1] = <<Len(transactions), Len(data_points)>>]
    /\ UNCHANGED <<transactions, data_points, conn, file, pos, batch, added, skipped,
                   reimport, writer, pending, page>>
    /\ UNCHANGED aggVars

\* run_sync up to the first loop iteration of OuraConnector.sync:
\* _start_sync, then the fetches.  non200 names the fetch that got a non-200
\* response ("none": all got 200): it returns [] and sync goes on.
OuraConnector_run_sync(non200, f) ==
    /\ pc[1] = "idle"
    /\ conn[1] = "oura"
    /\ non200 \in OuraKinds => \A i \in DOMAIN f : f[i].kind # non200
    /\ pc' = [pc EXCEPT ![1] = "loop"]
    /\ log' = BaseConnector_start_sync
    /\ api_errors' = IF non200 \in OuraKinds THEN {"fetch"} ELSE {}
    /\ file' = [file EXCEPT ![1] = f]
    /\ pos' = [pos EXCEPT ![1] = 1]
    /\ added' = [added EXCEPT ![1] = 0]
    /\ skipped' = [skipped EXCEPT ![1] = 0]
    /\ count0' = [count0 EXCEPT ![1] = <<Len(transactions), Len(data_points)>>]
    /\ pending' = <<>>
    /\ UNCHANGED <<transactions, data_points, conn, batch, reimport, writer, page>>
    /\ UNCHANGED aggVars

\* One iteration of a loop of _save_sleep_data / _save_readiness_data /
\* _save_activity_data.  An exception leaves sync and reaches run_sync, whose
\* _fail_sync sets the log and commits the session.
OuraConnector_sync_record ==
    /\ pc[1] = "loop"
    /\ conn[1] = "oura"
    /\ pos[1] <= Len(file[1])
    /\ LET record == file[1][pos[1]]
       IN  IF record.kind = "sleep" /\ OuraConnector_save_sleep_data_raises(record)
           THEN /\ pc' = [pc EXCEPT ![1] = "failed"]
                /\ log' = BaseConnector_fail_sync(log, "ValueError")
                /\ data_points' = data_points \o pending
                /\ pending' = <<>>
                /\ UNCHANGED <<added, pos>>
           ELSE LET new == CASE record.kind = "sleep" -> OuraConnector_save_sleep_data(record)
                             [] record.kind = "readiness" ->
                                    OuraConnector_save_readiness_data(record)
                             [] OTHER -> OuraConnector_save_activity_data(record)
                IN  /\ pending' = pending \o new
                    /\ added' = [added EXCEPT ![1] = @ + Len(new)]
                    /\ pos' = [pos EXCEPT ![1] = @ + 1]
                    /\ UNCHANGED <<pc, log, data_points>>
    /\ UNCHANGED <<transactions, conn, file, batch, skipped, reimport, count0, writer,
                   api_errors, page>>
    /\ UNCHANGED aggVars

\* The end of OuraConnector.sync: session.commit(), return added, skipped;
\* then _complete_sync.
OuraConnector_sync_return ==
    /\ pc[1] = "loop"
    /\ conn[1] = "oura"
    /\ pos[1] > Len(file[1])
    /\ data_points' = data_points \o pending
    /\ pending' = <<>>
    /\ pc' = [pc EXCEPT ![1] = "done"]
    /\ log' = BaseConnector_complete_sync(log, added[1], skipped[1])
    /\ UNCHANGED <<transactions, conn, file, pos, batch, added, skipped, reimport, count0,
                   writer, api_errors, page>>
    /\ UNCHANGED aggVars

(***************************************************************************)
(* peloton.py                                                              *)
(***************************************************************************)
\* A workout of the /api/user/{id}/workouts list together with what
\* /api/workout/{id} answers for it.  old: start_time is before "since";
\* details_ok: the details request gets 200; calories, distance,
\* avg_heart_rate: 0 stands for a missing / falsy value.
PelotonWorkout(id, old, details_ok, duration, calories, distance, avg_heart_rate) ==
    [id |-> id, old |-> old, details_ok |-> details_ok, duration |-> duration,
     calories |-> calories, distance |-> distance, avg_heart_rate |-> avg_heart_rate]

\* One workout reported first without and then with calories, distance and
\* heart rate; a workout whose details cannot be fetched; a workout before
\* the cutoff; a second workout.
PelotonRows == { PelotonWorkout(<<"w1">>, FALSE, TRUE, 30, 0, 0, 0),
                 PelotonWorkout(<<"w1">>, FALSE, TRUE, 45, 3, 2, 4),
                 PelotonWorkout(<<"w1">>, FALSE, FALSE, 30, 3, 2, 4),
                 PelotonWorkout(<<"w2">>, TRUE, TRUE, 30, 3, 0, 0),
                 PelotonWorkout(<<"w2">>, FALSE, TRUE, 30, 3, 0, 0) }

\* datetime.fromtimestamp(workout["start_time"]) on the workouts of the model.
PelotonStartTime(id) == IF id = <<"w1">> THEN TS(15, 8, 0) ELSE TS(16, 8, 0)

\* f"{workout_id}_cal", f"{workout_id}_dist", f"{workout_id}_hr"
PelotonCalId(workout_id) == workout_id \o <<"_cal">>
PelotonDistId(workout_id) == workout_id \o <<"_dist">>
PelotonHrId(workout_id) == workout_id \o <<"_hr">>

\* PelotonConnector._workout_exists
PelotonConnector_workout_exists(workout_id) ==
    \E i \in DOMAIN SessionView :
        SessionView[i].source = "peloton" /\ SessionView[i].source_id = workout_id

\* PelotonConnector._save_workout: the records it adds to the session.
PelotonConnector_save_workout(workout) ==
    IF workout.id = <<>> \/ PelotonConnector_workout_exists(workout.id) THEN <<>>
    ELSE LET start_time == PelotonStartTime(workout.id)
         IN  <<ApiDataPoint(start_time, "workout", workout.duration, "min",
                            "peloton", workout.id)>>
             \o (IF workout.calories # 0
                 THEN <<ApiDataPoint(start_time, "active_calories", workout.calories, "kcal",
                                     "peloton", PelotonCalId(workout.id))>>
                 ELSE <<>>)
             \o (IF workout.distance # 0
                 THEN <<ApiDataPoint(start_time, "distance", workout.distance, "mi",
                                     "peloton", PelotonDistId(workout.id))>>
                 ELSE <<>>)
             \o (IF workout.avg_heart_rate # 0
                 THEN <<ApiDataPoint(start_time, "heart_rate", workout.avg_heart_rate, "bpm",
                                     "peloton", PelotonHrId(workout.id))>>
                 ELSE <<>>)

\* The pages that cutting the list flat after the positions of ends gives.
RECURSIVE PagesFrom(_, _, _)
PagesFrom(flat, ends, start) ==
    IF ends = {} THEN <<>>
    ELSE LET e == CHOOSE x \in ends : \A y \in ends : x <= y
         IN  <<SubSeq(flat, start, e)>> \o PagesFrom(flat, ends \ {e}, e + 1)

\* The non-empty pages the workouts endpoint serves during one sync; after
\* the last of them it answers with the empty list.
PagedResponses(rows) ==
    UNION {{PagesFrom(flat, cuts \cup (IF flat = <<>> THEN {} ELSE {Len(flat)}), 1) :
               cuts \in SUBSET (1..(Len(flat) - 1))} :
           flat \in SeqsUpTo(rows, MaxApiLen)}

\* "if page > 50: break"
PelotonSafetyLimit == 50

\* run_sync up to the first _fetch_workouts of PelotonConnector.sync:
\* _start_sync, _authenticate (which succeeds).
PelotonConnector_run_sync(f) ==
    /\ pc[1] = "idle"
    /\ conn[1] = "peloton"
    /\ pc' = [pc EXCEPT ![1] = "fetch"]
    /\ log' = BaseConnector_start_sync
    /\ api_errors' = {}
    /\ file' = [file EXCEPT ![1] = f]
    /\ pos' = [pos EXCEPT ![1] = 1]
    /\ added' = [added EXCEPT ![1] = 0]
    /\ skipped' = [skipped EXCEPT ![1] = 0]
    /\ count0' = [count0 EXCEPT ![1] = <<Len(transactions), Len(data_points)>>]
    /\ pending' = <<>>
    /\ page' = 0
    /\ UNCHANGED <<transactions, data_points, conn, batch, reimport, writer>>
    /\ UNCHANGED aggVars

\* _fetch_workouts gets a non-200 response: ValueError leaves sync; run_sync's
\* _fail_sync sets the log and commits the session.
PelotonConnector_fetch_workouts_fails ==
    /\ pc[1] = "fetch"
    /\ conn[1] = "peloton"
    /\ pc' = [pc EXCEPT ![1] = "failed"]
    /\ log' = BaseConnector_fail_sync(log, "ValueError")
    /\ api_errors' = api_errors \cup {"fetch"}
    /\ data_points' = data_points \o pending
    /\ pending' = <<>>
    /\ UNCHANGED <<transactions, conn, file, pos, batch, added, skipped, reimport, count0,
                   writer, page>>
    /\ UNCHANGED aggVars

\* _fetch_workouts(limit=50, page=page) gets 200.  An empty page ends the
\* loop: sync returns and _complete_sync sets the log.
PelotonConnector_fetch_workouts ==
    /\ pc[1] = "fetch"
    /\ conn[1] = "peloton"
    /\ IF page + 1 > Len(file[1])
       THEN /\ pc' = [pc EXCEPT ![1] = "done"]
            /\ log' = BaseConnector_complete_sync(log, added[1], skipped[1])
       ELSE /\ pc' = [pc EXCEPT ![1] = "loop"]
            /\ UNCHANGED log
    /\ pos' = [pos EXCEPT ![1] = 1]
    /\ UNCHANGED <<transactions, data_points, conn, file, batch, added, skipped, reimport,
                   count0, writer, pending, api_errors, page>>
    /\ UNCHANGED aggVars

\* Mutant: a workout found stored gets its stored duration overwritten.
PelotonConnector_sync_workout_upsert ==
    /\ pc[1] = "loop"
    /\ conn[1] = "peloton"
    /\ pos[1] <= Len(file[1][page + 1])
    /\ LET workout == file[1][page + 1][pos[1]]
       IN  IF workout.old
           THEN UNCHANGED <<pending, added, skipped, api_errors, data_points>>
           ELSE IF PelotonConnector_workout_exists(workout.id)
           THEN /\ skipped' = [skipped EXCEPT ![1] = @ + 1]
                /\ data_points' =
                       [i \in DOMAIN data_points |->
                           IF data_points[i].source = "peloton"
                              /\ data_points[i].source_id = workout.id
                           THEN [data_points[i] EXCEPT !.value = workout.duration]
                           ELSE data_points[i]]
                /\ UNCHANGED <<pending, added, api_errors>>
           ELSE IF ~workout.details_ok
           THEN /\ api_errors' = api_errors \cup {"details"}
                /\ UNCHANGED <<pending, added, skipped, data_points>>
           ELSE LET records == PelotonConnector_save_workout(workout)
                IN  /\ pending' = pending \o records
                    /\ added' = [added EXCEPT ![1] = @ + Len(records)]
                    /\ UNCHANGED <<skipped, api_errors, data_points>>
    /\ pos' = [pos EXCEPT ![1] = @ + 1]
    /\ UNCHANGED <<transactions, pc, conn, file, batch, reimport, count0,
                   writer, log, page>>
    /\ UNCHANGED aggVars

\* One iteration of "for workout_summary in workouts".
PelotonConnector_sync_workout ==
    /\ pc[1] = "loop"
    /\ conn[1] = "peloton"
    /\ pos[1] <= Len(file[1][page + 1])
    /\ LET workout == file[1][page + 1][pos[1]]
       IN  IF workout.old
           THEN UNCHANGED <<pending, added, skipped, api_errors>>
           ELSE IF PelotonConnector_workout_exists(workout.id)
           THEN /\ skipped' = [skipped EXCEPT ![1] = @ + 1]
                /\ UNCHANGED <<pending, added, api_errors>>
           ELSE IF ~workout.details_ok
           THEN /\ api_errors' = api_errors \cup {"details"}
                /\ UNCHANGED <<pending, added, skipped>>
           ELSE LET records == PelotonConnector_save_workout(workout)
                IN  /\ pending' = pending \o records
                    /\ added' = [added EXCEPT ![1] = @ + Len(records)]
                    /\ UNCHANGED <<skipped, api_errors>>
    /\ pos' = [pos EXCEPT ![1] = @ + 1]
    /\ UNCHANGED <<transactions, data_points, pc, conn, file, batch, reimport, count0,
                   writer, log, page>>
    /\ UNCHANGED aggVars

\* Mutant: no safety limit, the loop ends at an empty page only.
PelotonConnector_sync_page_end_no_limit ==
    /\ pc[1] = "loop"
    /\ conn[1] = "peloton"
    /\ pos[1] > Len(file[1][page + 1])
    /\ data_points' = data_points \o pending
    /\ pending' = <<>>
    /\ page' = page + 1
    /\ pc' = [pc EXCEPT ![1] = "fetch"]
    /\ UNCHANGED <<transactions, conn, file, pos, batch, added, skipped, reimport, count0,
                   writer, api_errors, log>>
    /\ UNCHANGED aggVars

\* After the inner loop: session.commit(), page += 1, the safety limit.
PelotonConnector_sync_page_end ==
    /\ pc[1] = "loop"
    /\ conn[1] = "peloton"
    /\ pos[1] > Len(file[1][page + 1])
    /\ data_points' = data_points \o pending
    /\ pending' = <<>>
    /\ page' = page + 1
    /\ IF page + 1 > PelotonSafetyLimit
       THEN /\ pc' = [pc EXCEPT ![1] = "done"]
            /\ log' = BaseConnector_complete_sync(log, added[1], skipped[1])
       ELSE /\ pc' = [pc EXCEPT ![1] = "fetch"]
            /\ UNCHANGED log
    /\ UNCHANGED <<transactions, conn, file, pos, batch, added, skipped, reimport, count0,
                   writer, api_errors>>
    /\ UNCHANGED aggVars

(***************************************************************************)
(* tonal.py                                                                *)
(***************************************************************************)
\* A workout of the /v1/workouts list together with what /v1/workouts/{id}
\* answers for it.  old: its time is before "since"; details_ok: the details
\* request gets 200; exercises: the volume (sum of reps * weight) of each
\* exercise; calories: 0 stands for a missing / falsy value.
TonalWorkout(id, old, details_ok, duration, exercises, calories) ==
    [id |-> id, old |-> old, details_ok |-> details_ok, duration |-> duration,
     exercises |-> exercises, calories |-> calories]

TonalRows == { TonalWorkout(<<"t2">>, FALSE, TRUE, 30, <<5>>, 0),
               TonalWorkout(<<"t1">>, FALSE, TRUE, 30, <<>>, 0),
               TonalWorkout(<<"t1">>, FALSE, TRUE, 30, <<0, 5>>, 3),
               TonalWorkout(<<"t1">>, FALSE, FALSE, 30, <<0, 5>>, 3),
               TonalWorkout(<<"t2">>, TRUE, TRUE, 30, <<5>>, 0) }

\* The parsed startedAt of the workouts of the model.
TonalStartTime(id) == IF id = <<"t1">> THEN TS(15, 9, 0) ELSE TS(16, 9, 0)

\* f"{workout_id}_vol", f"{workout_id}_workout", f"{workout_id}_cal",
\* f"{workout_id}_ex{i}"
TonalVolId(workout_id) == workout_id \o <<"_vol">>
TonalWorkoutId(workout_id) == workout_id \o <<"_workout">>
TonalCalId(workout_id) == workout_id \o <<"_cal">>
TonalExId(workout_id, i) == workout_id \o <<"_ex", i>>

\* total_volume: the sum of the exercises' volumes.
RECURSIVE TonalTotalVolume(_)
TonalTotalVolume(exercises) ==
    IF exercises = <<>> THEN 0 ELSE Head(exercises) + TonalTotalVolume(Tail(exercises))

\* "for i, exercise in enumerate(exercise_details)" from index i on.
RECURSIVE TonalExerciseRecords(_, _, _)
TonalExerciseRecords(workout_id, exercises, i) ==
    IF i >= Len(exercises) THEN <<>>
    ELSE (IF exercises[i + 1] > 0
          THEN <<ApiDataPoint(TonalStartTime(workout_id), "strength_exercise",
                              exercises[i + 1], "lbs", "tonal", TonalExId(workout_id, i))>>
          ELSE <<>>)
         \o TonalExerciseRecords(workout_id, exercises, i + 1)

\* Mutant: the existence check looks among the Peloton records.
TonalConnector_workout_exists_peloton(workout_id) ==
    \E i \in DOMAIN SessionView :
        SessionView[i].source = "peloton" /\ SessionView[i].source_id = workout_id

\* TonalConnector._workout_exists
TonalConnector_workout_exists(workout_id) ==
    \E i \in DOMAIN SessionView :
        SessionView[i].source = "tonal" /\ SessionView[i].source_id = workout_id

\* TonalConnector._save_workout: the records it adds to the session.
TonalConnector_save_workout(workout) ==
    IF workout.id = <<>> \/ TonalConnector_workout_exists(workout.id) THEN <<>>
    ELSE LET start_time == TonalStartTime(workout.id)
             total_volume == TonalTotalVolume(workout.exercises)
         IN  <<ApiDataPoint(start_time, "strength_workout", workout.duration, "min",
                            "tonal", workout.id)>>
             \o (IF total_volume > 0
                 THEN <<ApiDataPoint(start_time, "volume", total_volume, "lbs",
                                     "tonal", TonalVolId(workout.id))>>
                 ELSE <<>>)
             \o <<ApiDataPoint(start_time, "workout", workout.duration, "min",
                               "tonal", TonalWorkoutId(workout.id))>>
             \o (IF workout.calories # 0
                 THEN <<ApiDataPoint(start_time, "active_calories", workout.calories, "kcal",
                                     "tonal", TonalCalId(workout.id))>>
                 ELSE <<>>)
             \o TonalExerciseRecords(workout.id, workout.exercises, 0)

\* "limit=50", "offset += 50"
TonalLimit == 50

\* "if offset > 500: break"
TonalSafetyLimit == 500

\* What /v1/workouts answers for limit=TonalLimit and the offset held in page.
TonalPage(f, offset) ==
    SubSeq(f, offset + 1, IF offset + TonalLimit < Len(f) THEN offset + TonalLimit ELSE Len(f))

\* run_sync up to the first _fetch_workouts of TonalConnector.sync:
\* _start_sync, _authenticate (which succeeds).
TonalConnector_run_sync(f) ==
    /\ pc[1] = "idle"
    /\ conn[1] = "tonal"
    /\ pc' = [pc EXCEPT ![1] = "fetch"]
    /\ log' = BaseConnector_start_sync
    /\ api_errors' = {}
    /\ file' = [file EXCEPT ![1] = f]
    /\ pos' = [pos EXCEPT ![1] = 1]
    /\ added' = [added EXCEPT ![1] = 0]
    /\ skipped' = [skipped EXCEPT ![1] = 0]
    /\ count0' = [count0 EXCEPT ![1] = <<Len(transactions), Len(data_points)>>]
    /\ pending' = <<>>
    /\ page' = 0
    /\ UNCHANGED <<transactions, data_points, conn, batch, reimport, writer>>
    /\ UNCHANGED aggVars

\* _fetch_workouts gets a non-200 response: ValueError leaves sync; run_sync's
\* _fail_sync sets the log and commits the session.
TonalConnector_fetch_workouts_fails ==
    /\ pc[1] = "fetch"
    /\ conn[1] = "tonal"
    /\ pc' = [pc EXCEPT ![1] = "failed"]
    /\ log' = BaseConnector_fail_sync(log, "ValueError")
    /\ api_errors' = api_errors \cup {"fetch"}
    /\ data_points' = data_points \o pending
    /\ pending' = <<>>
    /\ UNCHANGED <<transactions, conn, file, pos, batch, added, skipped, reimport, count0,
                   writer, page>>
    /\ UNCHANGED aggVars

\* _fetch_workouts(limit=50, offset=offset) gets 200.  An empty list ends the
\* loop: sync returns and _complete_sync sets the log.
TonalConnector_fetch_workouts ==
    /\ pc[1] = "fetch"
    /\ conn[1] = "tonal"
    /\ IF TonalPage(file[1], page) = <<>>
       THEN /\ pc' = [pc EXCEPT ![1] = "done"]
            /\ log' = BaseConnector_complete_sync(log, added[1], skipped[1])
       ELSE /\ pc' = [pc EXCEPT ![1] = "loop"]
            /\ UNCHANGED log
    /\ pos' = [pos EXCEPT ![1] = 1]
    /\ UNCHANGED <<transactions, data_points, conn, file, batch, added, skipped, reimport,
                   count0, writer, pending, api_errors, page>>
    /\ UNCHANGED aggVars

\* One iteration of "for workout_summary in workouts".
TonalConnector_sync_workout ==
    /\ pc[1] = "loop"
    /\ conn[1] = "tonal"
    /\ pos[1] <= Len(TonalPage(file[1], page))
    /\ LET workout == TonalPage(file[1], page)[pos[1]]
       IN  IF workout.old
           THEN UNCHANGED <<pending, added, skipped, api_errors>>
           ELSE IF TonalConnector_workout_exists(workout.id)
           THEN /\ skipped' = [skipped EXCEPT ![1] = @ + 1]
                /\ UNCHANGED <<pending, added, api_errors>>
           ELSE IF ~workout.details_ok
           THEN /\ api_errors' = api_errors \cup {"details"}
                /\ UNCHANGED <<pending, added, skipped>>
           ELSE LET records == TonalConnector_save_workout(workout)
                IN  /\ pending' = pending \o records
                    /\ added' = [added EXCEPT ![1] = @ + Len(records)]
                    /\ UNCHANGED <<skipped, api_errors>>
    /\ pos' = [pos EXCEPT ![1] = @ + 1]
    /\ UNCHANGED <<transactions, data_points, pc, conn, file, batch, reimport, count0,
                   writer, log, page>>
    /\ UNCHANGED aggVars

\* After the inner loop: session.commit(), then the three ways out of the
\* outer loop (found_old, a short page, the safety limit) or the next offset.
TonalConnector_sync_page_end ==
    /\ pc[1] = "loop"
    /\ conn[1] = "tonal"
    /\ pos[1] > Len(TonalPage(file[1], page))
    /\ data_points' = data_points \o pending
    /\ pending' = <<>>
    /\ LET workouts == TonalPage(file[1], page)
           found_old == \E i \in DOMAIN workouts : workouts[i].old
       IN  IF found_old \/ Len(workouts) < TonalLimit
           THEN /\ pc' = [pc EXCEPT ![1] = "done"]
                /\ log' = BaseConnector_complete_sync(log, added[1], skipped[1])
                /\ UNCHANGED page
           ELSE /\ page' = page + TonalLimit
                /\ IF page + TonalLimit > TonalSafetyLimit
                   THEN /\ pc' = [pc EXCEPT ![1] = "done"]
                        /\ log' = BaseConnector_complete_sync(log, added[1], skipped[1])
                   ELSE /\ pc' = [pc EXCEPT ![1] = "fetch"]
                        /\ UNCHANGED log
    /\ UNCHANGED <<transactions, conn, file, pos, batch, added, skipped, reimport, count0,
                   writer, api_errors>>
    /\ UNCHANGED aggVars

(***************************************************************************)
(* simplefin.py under run_sync                                             *)
(***************************************************************************)
\* The transactions /accounts may report: those of SimplefinRows and t1
\* again with another amount.
SimplefinApiRows == SimplefinRows \cup {SimplefinTxn("t1", TRUE, TRUE, TS(15, 0, 0), 7)}

\* The responses of /accounts that list each transaction id at most once.
SimplefinResponses ==
    {f \in SeqsUpTo(SimplefinApiRows, MaxApiLen) :
        \A i, j \in DOMAIN f : (i # j /\ f[i].id # "") => f[i].id # f[j].id}

\* run_sync whose _fetch_accounts gets a non-200 response, or a response
\* with "errors": ValueError leaves sync, _fail_sync sets the log.
SimpleFINConnector_fetch_accounts_fails ==
    /\ pc[1] = "idle"
    /\ conn[1] = "simplefin"
    /\ pc' = [pc EXCEPT ![1] = "failed"]
    /\ log' = BaseConnector_fail_sync(BaseConnector_start_sync, "ValueError")
    /\ api_errors' = {"fetch"}
    /\ count0' = [count0 EXCEPT ![1] = <<Len(transactions), Len(data_points)>>]
    /\ UNCHANGED <<transactions, data_points, conn, file, pos, batch, added, skipped,
                   reimport, writer, pending, page>>
    /\ UNCHANGED aggVars

\* run_sync up to the first loop iteration of SimpleFINConnector.sync:
\* _start_sync, _fetch_accounts got 200 without errors.
SimpleFINConnector_run_sync(f) ==
    /\ pc[1] = "idle"
    /\ conn[1] = "simplefin"
    /\ pc' = [pc EXCEPT ![1] = "loop"]
    /\ log' = BaseConnector_start_sync
    /\ api_errors' = {}
    /\ file' = [file EXCEPT ![1] = f]
    /\ pos' = [pos EXCEPT ![1] = 1]
    /\ batch' = [batch EXCEPT ![1] = <<>>]
    /\ added' = [added EXCEPT ![1] = 0]
    /\ skipped' = [skipped EXCEPT ![1] = 0]
    /\ count0' = [count0 EXCEPT ![1] = <<Len(transactions), Len(data_points)>>]
    /\ UNCHANGED <<transactions, data_points, conn, reimport, writer, pending, page>>
    /\ UNCHANGED aggVars

\* The flush inside the loop of SimpleFINConnector.sync.
SimpleFINConnector_sync_flush ==
    /\ conn[1] = "simplefin"
    /\ FlushBatch(1)

\* After the loops: "if batch:" final flush, return added, skipped;
\* _complete_sync sets the log.
SimpleFINConnector_sync_return ==
    /\ pc[1] = "loop"
    /\ conn[1] = "simplefin"
    /\ pos[1] > Len(file[1])
    /\ IF batch[1] # <<>>
       THEN AddAllCommit(1)
       ELSE UNCHANGED <<transactions, data_points, writer>>
    /\ batch' = [batch EXCEPT ![1] = <<>>]
    /\ pc' = [pc EXCEPT ![1] = "done"]
    /\ log' = BaseConnector_complete_sync(log, added[1], skipped[1])
    /\ UNCHANGED <<conn, file, pos, added, skipped, reimport, count0, pending, api_errors,
                   page>>
    /\ UNCHANGED aggVars

\* run_sync has returned the log or re-raised; the caller closes the session.
ApiReturn ==
    /\ pc[1] \in {"done", "failed"}
    /\ pc' = [pc EXCEPT ![1] = "idle"]
    /\ file' = [file EXCEPT ![1] = <<>>]
    /\ pos' = [pos EXCEPT ![1] = 1]
    /\ added' = [added EXCEPT ![1] = 0]
    /\ skipped' = [skipped EXCEPT ![1] = 0]
    /\ count0' = [count0 EXCEPT ![1] = <<0, 0>>]
    /\ log' = NoLog
    /\ api_errors' = {}
    /\ page' = 0
    /\ pending' = <<>>
    /\ UNCHANGED <<transactions, data_points, conn, batch, reimport, writer>>
    /\ UNCHANGED aggVars

(***************************************************************************)
(* SpecApi: serial syncs of one API connector on one store.                *)
(***************************************************************************)
ApiConnectors == {"oura", "peloton", "tonal", "simplefin"}

InitApi ==
    /\ EmptyStore
    /\ RunsIdle
    /\ AggIdle
    /\ ApiIdle
    /\ \E c \in ApiConnectors : conn = [p \in Procs |-> c]

NextApi ==
    \/ BaseConnector_run_sync_auth_fails
    \/ \E non200 \in OuraKinds \cup {"none"}, f \in OuraResponses :
          OuraConnector_run_sync(non200, f)
    \/ OuraConnector_sync_record
    \/ OuraConnector_sync_return
    \/ \E f \in PagedResponses(PelotonRows) : PelotonConnector_run_sync(f)
    \/ PelotonConnector_fetch_workouts_fails
    \/ PelotonConnector_fetch_workouts
    \/ PelotonConnector_sync_workout
    \/ PelotonConnector_sync_page_end
    \/ \E f \in SeqsUpTo(TonalRows, MaxApiLen) : TonalConnector_run_sync(f)
    \/ TonalConnector_fetch_workouts_fails
    \/ TonalConnector_fetch_workouts
    \/ TonalConnector_sync_workout
    \/ TonalConnector_sync_page_end
    \/ SimpleFINConnector_fetch_accounts_fails
    \/ \E f \in SimplefinResponses : SimpleFINConnector_run_sync(f)
    \/ SimpleFINConnector_sync_txn(1)
    \/ SimpleFINConnector_sync_flush
    \/ SimpleFINConnector_sync_return
    \/ ApiReturn

SpecApi == InitApi /\ [][NextApi]_vars

(***************************************************************************)
(* generate_transaction_id computed: the content string character by       *)
(* character, hashlib.md5 (RFC 1321) on 32-bit words kept as <<high, low>> *)
(* halves of 16 bits, the first 16 hex digits.                             *)
(***************************************************************************)
RECURSIVE And16(_, _)
And16(a, b) ==
    IF a = 0 \/ b = 0 THEN 0 ELSE (a % 2) * (b % 2) + 2 * And16(a \div 2, b \div 2)

RECURSIVE Xor16(_, _)
Xor16(a, b) ==
    IF a = 0 THEN b
    ELSE IF b = 0 THEN a
    ELSE ((a + b) % 2) + 2 * Xor16(a \div 2, b \div 2)

Or16(a, b) == a + b - And16(a, b)

WordAnd(x, y) == <<And16(x[1], y[1]), And16(x[2], y[2])>>
WordOr(x, y) == <<Or16(x[1], y[1]), Or16(x[2], y[2])>>
WordXor(x, y) == <<Xor16(x[1], y[1]), Xor16(x[2], y[2])>>
WordNot(x) == <<65535 - x[1], 65535 - x[2]>>

\* Addition modulo 2^32.
WordAdd(x, y) ==
    LET lo == x[2] + y[2]
        hi == x[1] + y[1] + (lo \div 65536)
    IN  <<hi % 65536, lo % 65536>>

\* Rotation to the left by s bits, 0 <= s < 32.
WordRotl(x, s) ==
    LET y == IF s >= 16 THEN <<x[2], x[1]>> ELSE x
        r == IF s >= 16 THEN s - 16 ELSE s
    IN  <<((y[1] * 2^r) % 65536) + (y[2] \div 2^(16 - r)),
          ((y[2] * 2^r) % 65536) + (y[1] \div 2^(16 - r))>>

\* floor(2^32 * abs(sin(i + 1))) for i = 0..63.
Md5K ==
    <<
       <<55146, 42104>>, <<59591, 46934>>, <<9248, 28891>>, <<49597, 52974>>,
       <<62844, 4015>>, <<18311, 50730>>, <<43056, 17939>>, <<64838, 38145>>,
       <<27008, 39128>>, <<35652, 63407>>, <<65535, 23473>>, <<35164, 55230>>,
       <<27536, 4386>>, <<64920, 29075>>, <<42617, 17294>>, <<18868, 2081>>,
       <<63006, 9570>>, <<49216, 45888>>, <<9822, 23121>>, <<59830, 51114>>,
       <<54831, 4189>>, <<580, 5203>>, <<55457, 59009>>, <<59347, 64456>>,
       <<8673, 52710>>, <<49975, 2006>>, <<62677, 3463>>, <<17754, 5357>>,
       <<43491, 59653>>, <<64751, 41976>>, <<26479, 729>>, <<36138, 19594>>,
       <<65530, 14658>>, <<34673, 63105>>, <<28061, 24866>>, <<64997, 14348>>,
       <<42174, 59972>>, <<19422, 53161>>, <<63163, 19296>>, <<48831, 48240>>,
       <<10395, 32454>>, <<60065, 10234>>, <<54511, 12421>>, <<1160, 7429>>,
       <<55764, 53305>>, <<59099, 39397>>, <<8098, 31992>>, <<50348, 22117>>,
       <<62505, 8772>>, <<17194, 65431>>, <<43924, 9127>>, <<64659, 41017>>,
       <<25947, 22979>>, <<36620, 52370>>, <<65519, 62589>>, <<34180, 24017>>,
       <<28584, 32335>>, <<65068, 59104>>, <<41729, 17172>>, <<19976, 4513>>,
       <<63315, 32386>>, <<48442, 62005>>, <<10967, 53947>>, <<60294, 54161>>
    >>

\* The per-round shift amounts.
Md5S ==
    <<7, 12, 17, 22, 7, 12, 17, 22, 7, 12, 17, 22, 7, 12, 17, 22,
      5, 9, 14, 20, 5, 9, 14, 20, 5, 9, 14, 20, 5, 9, 14, 20,
      4, 11, 16, 23, 4, 11, 16, 23, 4, 11, 16, 23, 4, 11, 16, 23,
      6, 10, 15, 21, 6, 10, 15, 21, 6, 10, 15, 21, 6, 10, 15, 21>>

\* 0x67452301, 0xefcdab89, 0x98badcfe, 0x10325476
Md5Init == <<<<26437, 8961>>, <<61389, 43913>>, <<39098, 56574>>, <<4146, 21622>>>>

\* The message with the padding: 0x80, zeros up to 56 modulo 64, the length
\* in bits as 8 little-endian bytes.
Md5Pad(bytes) ==
    LET n == Len(bytes)
        zeros == (119 - n) % 64
        bits == 8 * n
    IN  bytes \o <<128>> \o [i \in 1..zeros |-> 0]
        \o <<bits % 256, (bits \div 256) % 256, (bits \div 65536) % 256,
             (bits \div 16777216) % 256, 0, 0, 0, 0>>

\* Word g (0..15) of block k (0..) of the padded message, little-endian.
Md5Word(padded, k, g) ==
    LET o == 64 * k + 4 * g
    IN  <<padded[o + 3] + 256 * padded[o + 4], padded[o + 1] + 256 * padded[o + 2]>>

\* Operation i (0..63) on the state st = <<A, B, C, D>>.
Md5Step(st, padded, k, i) ==
    LET A == st[1]
        B == st[2]
        C == st[3]
        D == st[4]
        F == IF i < 16 THEN WordOr(WordAnd(B, C), WordAnd(WordNot(B), D))
             ELSE IF i < 32 THEN WordOr(WordAnd(D, B), WordAnd(WordNot(D), C))
             ELSE IF i < 48 THEN WordXor(WordXor(B, C), D)
             ELSE WordXor(C, WordOr(B, WordNot(D)))
        g == IF i < 16 THEN i
             ELSE IF i < 32 THEN (5 * i + 1) % 16
             ELSE IF i < 48 THEN (3 * i + 5) % 16
             ELSE (7 * i) % 16
        sum == WordAdd(WordAdd(F, A), WordAdd(Md5K[i + 1], Md5Word(padded, k, g)))
    IN  <<D, WordAdd(B, WordRotl(sum, Md5S[i + 1])), B, C>>

\* The 64 operations on one block: sts holds the state before the first
\* operation and the state after each operation done so far.
RECURSIVE Md5Rounds(_, _, _)
Md5Rounds(sts, padded, k) ==
    IF Len(sts) = 65 THEN sts[65]
    ELSE Md5Rounds(Append(sts, Md5Step(sts[Len(sts)], padded, k, Len(sts) - 1)), padded, k)

RECURSIVE Md5Blocks(_, _, _)
Md5Blocks(h, padded, k) ==
    IF 64 * k >= Len(padded) THEN h
    ELSE LET st == Md5Rounds(<<h>>, padded, k)
         IN  Md5Blocks(<<WordAdd(h[1], st[1]), WordAdd(h[2], st[2]),
                         WordAdd(h[3], st[3]), WordAdd(h[4], st[4])>>, padded, k + 1)

HexDigits == <<"0", "1", "2", "3", "4", "5", "6", "7", "8", "9", "a", "b", "c", "d", "e", "f">>

HexByte(b) == <<HexDigits[(b \div 16) + 1], HexDigits[(b % 16) + 1]>>

\* The hex digits of a word's four bytes, lowest byte first.
HexWord(x) ==
    HexByte(x[2] % 256) \o HexByte(x[2] \div 256) \o HexByte(x[1] % 256) \o HexByte(x[1] \div 256)

\* hashlib.md5(bytes).hexdigest()
md5_hexdigest(bytes) ==
    LET h == Md5Blocks(Md5Init, Md5Pad(bytes), 0)
    IN  HexWord(h[1]) \o HexWord(h[2]) \o HexWord(h[3]) \o HexWord(h[4])

\* The printable ASCII characters from code 32 on (the double quote, the
\* backslash and the backquote, which the model's strings do not use, are spelled out).
AsciiChars ==
    <<
       " ", "!", "quote", "#", "$", "%", "&", "'", "(", ")", "*", "+",
       ",", "-", ".", "/", "0", "1", "2", "3", "4", "5", "6", "7",
       "8", "9", ":", ";", "<", "=", ">", "?", "@", "A", "B", "C",
       "D", "E", "F", "G", "H", "I", "J", "K", "L", "M", "N", "O",
       "P", "Q", "R", "S", "T", "U", "V", "W", "X", "Y", "Z", "[",
       "backslash", "]", "^", "_", "backquote", "a", "b", "c", "d", "e", "f", "g",
       "h", "i", "j", "k", "l", "m", "n", "o", "p", "q", "r", "s",
       "t", "u", "v", "w", "x", "y", "z", "{", "|", "}", "~"
    >>

\* ord(c) of a printable ASCII character.
ord(c) == 31 + (CHOOSE k \in 1..Len(AsciiChars) : AsciiChars[k] = c)

\* str.encode() on a string of printable ASCII characters.
RECURSIVE encode(_)
encode(chars) == IF chars = <<>> THEN <<>> ELSE <<ord(Head(chars))>> \o encode(Tail(chars))

DecimalDigits == <<"0", "1", "2", "3", "4", "5", "6", "7", "8", "9">>

\* n in decimal, zero-padded to w digits ("%04d", "%02d").
RECURSIVE ZeroPadded(_, _)
ZeroPadded(n, w) ==
    IF w = 0 THEN <<>> ELSE ZeroPadded(n \div 10, w - 1) \o <<DecimalDigits[(n % 10) + 1]>>

\* str(n) of a natural number.
RECURSIVE NatStr(_)
NatStr(n) ==
    IF n < 10 THEN <<DecimalDigits[n + 1]>>
    ELSE NatStr(n \div 10) \o <<DecimalDigits[(n % 10) + 1]>>

\* datetime.isoformat() of a naive datetime without seconds and microseconds:
\* YYYY-MM-DDTHH:MM:SS.
isoformat(t) ==
    ZeroPadded(t.date[1], 4) \o <<"-">> \o ZeroPadded(t.date[2], 2) \o <<"-">>
    \o ZeroPadded(t.date[3], 2) \o <<"T">> \o ZeroPadded(t.hour, 2) \o <<":">>
    \o ZeroPadded(t.minute, 2) \o <<":">> \o ZeroPadded(0, 2)

\* f"{amount}" of a float with an integral value (the amounts of the model):
\* an optional sign, the digits, ".0".
float_str(amount) ==
    (IF amount < 0 THEN <<"-">> ELSE <<>>)
    \o NatStr(IF amount < 0 THEN 0 - amount ELSE amount) \o <<".", "0">>

\* Mutant: the amount is left out of the hashed content.
transaction_content_without_amount(date, amount, description) ==
    isoformat(date) \o <<"|">> \o description

\* content = f"{date.isoformat()}|{amount}|{description}"; description is a
\* sequence of characters.
transaction_content(date, amount, description) ==
    isoformat(date) \o <<"|">> \o float_str(amount) \o <<"|">> \o description

\* hashlib.md5(content.encode()).hexdigest()[:16]
generate_transaction_id_hexdigest(date, amount, description) ==
    SubSeq(md5_hexdigest(encode(transaction_content(date, amount, description))), 1, 16)

(***************************************************************************)
(* SpecFingerprint: generate_transaction_id on two triples drawn from      *)
(* dates, amounts and descriptions that differ in one field or in several. *)
(***************************************************************************)
\* Description characters: a letter and the delimiter of the content string.
DescriptionChars == {"A", "|"}

FingerprintTriples ==
    [date : {TS(15, 0, 0), TS(16, 0, 0)},
     amount : {5, 0 - 5, 50},
     description : SeqsUpTo(DescriptionChars, MaxDescLen)]

InitFingerprint ==
    /\ EmptyStore
    /\ RunsIdle
    /\ ApiIdle
    /\ conn = [p \in Procs |-> "csv_chase"]
    /\ call = "none"
    /\ fetched = <<>>
    /\ result = <<>>
    /\ query \in FingerprintTriples \X FingerprintTriples

\* The two calls of generate_transaction_id.
generate_transaction_id_call ==
    /\ call = "none"
    /\ call' = "generate_transaction_id"
    /\ result' = <<generate_transaction_id_hexdigest(query[1].date, query[1].amount,
                                                     query[1].description),
                   generate_transaction_id_hexdigest(query[2].date, query[2].amount,
                                                     query[2].description)>>
    /\ UNCHANGED <<query, fetched, transactions, data_points, conn>>
    /\ UNCHANGED ingestVars
    /\ UNCHANGED apiVars

NextFingerprint == generate_transaction_id_call

SpecFingerprint == InitFingerprint /\ [][NextFingerprint]_vars


(***************************************************************************)
(* Properties of the ingestion path.                                       *)
(***************************************************************************)
\* Rows of the payload that reach the existence check.
WellFormedCount(c, f) ==
    IF c \in CsvConnectors THEN Cardinality({i \in DOMAIN f : CsvWellFormed(f[i])})
    ELSE IF c = "apple_health" THEN Cardinality({i \in DOMAIN f : AppleWellFormed(f[i])})
    ELSE Cardinality({i \in DOMAIN f : f[i].id # ""})

SameTransaction(a, b) == a.source = b.source /\ a.source_id = b.source_id

SameDataPoint(a, b) ==
    /\ a.timestamp = b.timestamp
    /\ a.data_type = b.data_type
    /\ a.source = b.source
    /\ a.value = b.value

\* C1: when a CSV or Apple Health import repeats the payload of the run before
\* it on the same store, it returns added = 0 and skipped = the number of
\* well-formed records of the payload, and both tables have the size they had
\* when the first import had ended.
C1_ReimportAddsNothing ==
    (/\ pc[1] = "done"
     /\ reimport[1]
     /\ conn[1] \in CsvConnectors \cup {"apple_health"})
    => /\ added[1] = 0
       /\ skipped[1] = WellFormedCount(conn[1], file[1])
       /\ <<Len(transactions), Len(data_points)>> = count0[1]

\* A re-import of a payload with two well-formed rows and a malformed one has ended.
C1_Witness ==
    /\ pc[1] = "done"
    /\ reimport[1]
    /\ conn[1] \in CsvConnectors \cup {"apple_health"}
    /\ skipped[1] = 2
    /\ Len(file[1]) = 3
    /\ count0[1] # <<0, 0>>

\* C2: when a run has ended, no two stored records have the same fingerprint
\* (the same source and source_id; for Apple Health the same natural key):
\* of two incoming records with one fingerprint at most one is stored.
C2_AtMostOneStoredPerFingerprint ==
    pc[1] = "done" =>
        /\ \A i, j \in DOMAIN transactions :
              SameTransaction(transactions[i], transactions[j]) => i = j
        /\ \A i, j \in DOMAIN data_points :
              SameDataPoint(data_points[i], data_points[j]) => i = j

\* C5: under interleaved runs a fingerprint can be stored twice, and only by
\* two different runs: every run's own check keeps it from inserting a record
\* that it, or a run that committed before the check, has already stored.
C5_DuplicatesOnlyAcrossRuns ==
    \A i, j \in DOMAIN transactions :
        (i # j /\ transactions[i].source_id = transactions[j].source_id)
            => writer[i] # writer[j]

\* Both runs have ended and one fingerprint is stored twice.
C5_Witness ==
    /\ pc[1] = "done"
    /\ pc[2] = "done"
    /\ \E i, j \in DOMAIN transactions :
          i # j /\ transactions[i].source_id = transactions[j].source_id

(***************************************************************************)
(* Properties of the read path.  They are stated over the stored rows that *)
(* the query matches, not over the order in which they were fetched.       *)
(***************************************************************************)
RollupCalls == {"deduplicate_daily_totals", "get_deduplicated_total", "get_daily_average"}

\* Primary keys of the stored rows of the last call's metric and range.
QueryMatches == Matching(query.data_type, query.start_date, query.end_date)

HourKey(rec) == <<rec.timestamp.date, rec.timestamp.hour>>

\* Matching rows of hour bucket k; of bucket k and source src; of date d.
InBucket(k) == {i \in QueryMatches : HourKey(data_points[i]) = k}
InBucketOf(k, src) == {i \in InBucket(k) : data_points[i].source = src}
OnDate(d) == {i \in QueryMatches : data_points[i].timestamp.date = d}

BucketSources(k) == {data_points[i].source : i \in InBucket(k)}

RECURSIVE ValueSum(_)
ValueSum(I) ==
    IF I = {} THEN 0
    ELSE LET i == CHOOSE x \in I : TRUE IN data_points[i].value + ValueSum(I \ {i})

\* The hour buckets the last rollup call built from what it fetched.
LastBuckets == hourly_buckets(fetched, query.data_type)

Priority(src) == get_source_priority(query.data_type, src)

\* C3: every hour bucket with a matching record has exactly one winner, a
\* source with a record in it, and its value is the sum of all matching
\* records of that source in the bucket and of nothing else.
C3_WinnerValueIsSumOfItsRecords ==
    call \in RollupCalls =>
        LET buckets == LastBuckets
        IN  \A i \in QueryMatches :
                LET k == HourKey(data_points[i])
                    entries == {n \in DOMAIN buckets : buckets[n].key = k}
                IN  /\ Cardinality(entries) = 1
                    /\ \A n \in entries :
                          /\ buckets[n].source \in BucketSources(k)
                          /\ buckets[n].value = ValueSum(InBucketOf(k, buckets[n].source))

\* A bucket whose winner has two records in it and which holds another source too.
C3_Witness ==
    /\ call = "deduplicate_daily_totals"
    /\ LET buckets == LastBuckets
       IN  \E n \in DOMAIN buckets :
               /\ Cardinality(InBucketOf(buckets[n].key, buckets[n].source)) = 2
               /\ Cardinality(BucketSources(buckets[n].key)) = 2

\* C4: the winner of a bucket has a priority >= that of every source with a
\* record in the bucket; when one source of the bucket is strictly above all
\* the others, it is the winner and the value holds its records only,
\* wherever its records stand among the others.
C4_WinnerHasHighestPriority ==
    call \in RollupCalls =>
        LET buckets == LastBuckets
        IN  \A n \in DOMAIN buckets :
                LET k == buckets[n].key
                    sources == BucketSources(k)
                IN  /\ \A src \in sources : Priority(buckets[n].source) >= Priority(src)
                    /\ \A top \in sources :
                          (\A src \in sources \ {top} : Priority(top) > Priority(src))
                              => /\ buckets[n].source = top
                                 /\ buckets[n].value = ValueSum(InBucketOf(k, top))

\* In one bucket a lower-priority record was fetched before and another after
\* a record of the strictly highest source.
C4_Witness ==
    /\ call = "deduplicate_daily_totals"
    /\ \E a, b, c \in DOMAIN fetched :
          /\ a < b /\ b < c
          /\ HourKey(fetched[a]) = HourKey(fetched[b])
          /\ HourKey(fetched[b]) = HourKey(fetched[c])
          /\ Priority(fetched[a].source) < Priority(fetched[b].source)
          /\ Priority(fetched[c].source) < Priority(fetched[b].source)

DateKey(d) == (d[1] * 12 + d[2]) * 31 + d[3]

\* Sum of the winner values of the buckets of date d.
RECURSIVE WinnerSum(_, _)
WinnerSum(buckets, d) ==
    IF buckets = <<>> THEN 0
    ELSE (IF Head(buckets).key[1] = d THEN Head(buckets).value ELSE 0)
         + WinnerSum(Tail(buckets), d)

\* C7: the rows are, in strictly ascending date order, one for each date with
\* a matching record and none else; a row's total is the sum of the winner
\* values of the hour buckets of its date.
C7_OneRowPerDateAscending ==
    call = "deduplicate_daily_totals" =>
        LET dates == {data_points[i].timestamp.date : i \in QueryMatches}
            buckets == LastBuckets
        IN  /\ Len(result) = Cardinality(dates)
            /\ \E f \in [DOMAIN result -> dates] :
                  /\ \A n \in DOMAIN result :
                        /\ result[n].date = DateStr(f[n])
                        /\ result[n].total = WinnerSum(buckets, f[n])
                  /\ \A n, m \in DOMAIN result : n < m => DateKey(f[n]) < DateKey(f[m])

\* Two dates with data, three records.
C7_Witness ==
    /\ call = "deduplicate_daily_totals"
    /\ Len(result) = 2
    /\ Len(fetched) = 3

\* C8: get_deduplicated_total is the sum of the totals of the daily rows, and
\* get_daily_average is that sum divided by the number of rows.
C8_TotalAndAverageOverRows ==
    LET rows == deduplicate_daily_totals(fetched, query.data_type)
        sum == SumSeq([n \in DOMAIN rows |-> rows[n].total])
    IN  /\ call = "get_deduplicated_total" => result = sum
        /\ (call = "get_daily_average" /\ rows # <<>>)
              => /\ result.den = Len(rows)
                 /\ result.num = sum

\* An average over a range of two calendar days of which one has data.
C8_Witness ==
    /\ call = "get_daily_average"
    /\ CalendarDays(query.start_date, query.end_date) = 2
    /\ result.den = 1
    /\ result.num = 3

\* C9: when no stored record matches, the list functions return the empty
\* list, the total is 0 and the average is 0, with no division by zero.
C9_EmptyRangeIsZero ==
    (call \in RollupCalls \cup {"deduplicate_records_by_priority"} /\ QueryMatches = {})
        => CASE call = "deduplicate_daily_totals" -> result = <<>>
             [] call = "deduplicate_records_by_priority" -> result = <<>>
             [] call = "get_deduplicated_total" -> result = 0
             [] call = "get_daily_average" -> result.den # 0 /\ result.num = 0

\* An average over a store whose records all miss the metric or the range.
C9_Witness ==
    /\ call = "get_daily_average"
    /\ QueryMatches = {}
    /\ Len(data_points) = 2

Configured ==
    UNION {{<<t, src>> : src \in DOMAIN SOURCE_PRIORITY[t]} : t \in DOMAIN SOURCE_PRIORITY}

\* C10: get_source_priority returns the configured value of a configured
\* (metric type, source) pair and DEFAULT_PRIORITY for any other pair;
\* DEFAULT_PRIORITY is below every configured priority, and these are positive.
C10_PriorityLookupTotal ==
    /\ call = "get_source_priority" =>
          result = IF <<query.data_type, query.source>> \in Configured
                   THEN SOURCE_PRIORITY[query.data_type][query.source]
                   ELSE DEFAULT_PRIORITY
    /\ \A c \in Configured :
          /\ SOURCE_PRIORITY[c[1]][c[2]] > DEFAULT_PRIORITY
          /\ SOURCE_PRIORITY[c[1]][c[2]] > 0

\* A lookup for a metric type that SOURCE_PRIORITY does not list.
C10_Witness ==
    /\ call = "get_source_priority"
    /\ query.data_type \notin DOMAIN SOURCE_PRIORITY
    /\ result = DEFAULT_PRIORITY

(***************************************************************************)
(* Properties of the existence check.                                      *)
(***************************************************************************)
\* The record that item row of a payload of connector c becomes is stored
\* under the connector's own source with the same fingerprint.
StoredUnderOwnSource(c, row) ==
    IF c \in CsvConnectors
    THEN \E i \in DOMAIN transactions :
            /\ transactions[i].source = CsvSource(c)
            /\ transactions[i].source_id =
                   generate_transaction_id(row.date, row.amount, row.description)
    ELSE IF c = "simplefin"
    THEN \E i \in DOMAIN transactions :
            /\ transactions[i].source = "simplefin"
            /\ transactions[i].source_id = SimplefinSourceId(row.id)
    ELSE \E i \in DOMAIN data_points :
            SameDataPoint(data_points[i],
                          DataPoint(row.start_date, AppleDataType(row), row.value, "", row.source))

\* C11: a step of a run that counts the current item as skipped finds a stored
\* record with the item's own source and the item's fingerprint; a record
\* stored under another source never makes an item skipped.
C11_SkipNeedsSameSourceAndFingerprint ==
    [][skipped'[1] = skipped[1] + 1
          => StoredUnderOwnSource(conn[1], file[1][pos[1]])]_vars

\* The check of the Oura sync finds every fact of the record already stored.
OuraFoundStored(record) ==
    /\ record.id # <<>>
    /\ CASE record.kind = "sleep" -> OuraConnector_record_exists(OuraSleepId(record.id))
         [] record.kind = "readiness" -> OuraConnector_record_exists(OuraReadinessId(record.id))
         [] OTHER ->
              /\ record.steps # 0 \/ record.active_calories # 0
              /\ record.steps # 0 =>
                    OuraConnector_record_exists(OuraActivityStepsId(record.id))
              /\ record.active_calories # 0 =>
                    OuraConnector_record_exists(OuraActivityCalId(record.id))

\* C12: a loop iteration of a sync whose record is found already stored
\* leaves the store and the session unchanged and adds one to the skipped
\* count that the run returns (here for the Oura sync).
C12_FoundStoredCountsAsSkipped ==
    [][(/\ pc[1] = "loop"
        /\ conn[1] = "oura"
        /\ pos[1] <= Len(file[1])
        /\ pos'[1] = pos[1] + 1
        /\ OuraFoundStored(file[1][pos[1]]))
          => /\ skipped'[1] = skipped[1] + 1
             /\ data_points' = data_points
             /\ pending' = pending]_vars

(***************************************************************************)
(* Properties of imports with malformed rows.                              *)
(***************************************************************************)
\* The well-formed items of a payload, in order.
RECURSIVE WellFormedRows(_, _)
WellFormedRows(c, f) ==
    IF f = <<>> THEN <<>>
    ELSE (IF (IF c \in CsvConnectors THEN CsvWellFormed(Head(f)) ELSE AppleWellFormed(Head(f)))
          THEN <<Head(f)>> ELSE <<>>) \o WellFormedRows(c, Tail(f))

\* The record a well-formed item becomes.
RowRecord(c, row) ==
    IF c \in CsvConnectors
    THEN Transaction(row.date, row.amount, row.description, CsvSource(c),
                     generate_transaction_id(row.date, row.amount, row.description))
    ELSE DataPoint(row.start_date, AppleDataType(row), row.value,
                   IF row.tag = "Workout" THEN "min" ELSE "count", row.source)

\* The existence check of connector c for record rec against the rows of store.
RowExists(c, store, rec) ==
    IF c \in CsvConnectors
    THEN \E i \in DOMAIN store : store[i].source_id = rec.source_id
    ELSE \E i \in DOMAIN store : SameDataPoint(store[i], rec)

\* The table after an import of well-formed rows into store, b being the
\* batch in the making.
RECURSIVE StoreAfterImport(_, _, _, _)
StoreAfterImport(c, store, b, rows) ==
    IF rows = <<>> THEN store \o b
    ELSE LET rec == RowRecord(c, Head(rows))
         IN  IF RowExists(c, store, rec) THEN StoreAfterImport(c, store, b, Tail(rows))
             ELSE IF Len(b) + 1 >= BatchSize
             THEN StoreAfterImport(c, store \o Append(b, rec), <<>>, Tail(rows))
             ELSE StoreAfterImport(c, store, Append(b, rec), Tail(rows))

\* The table the connector of process 1 writes, now and when its run began.
Table(c) == IF c \in CsvConnectors \cup {"simplefin"} THEN transactions ELSE data_points
TableAtStart(c) ==
    SubSeq(Table(c), 1, IF c \in CsvConnectors \cup {"simplefin"}
                        THEN count0[1][1] ELSE count0[1][2])

\* C13: an import whose payload holds malformed rows among well-formed ones
\* does not raise; when it has returned, added + skipped is the number of
\* well-formed rows and the table is what importing the well-formed rows
\* alone into the table of the start yields.
C13_MalformedRowsAreDropped ==
    /\ pc[1] # "raised"
    /\ pc[1] = "done" =>
          /\ added[1] + skipped[1] = WellFormedCount(conn[1], file[1])
          /\ Table(conn[1]) = StoreAfterImport(conn[1], TableAtStart(conn[1]), <<>>,
                                               WellFormedRows(conn[1], file[1]))

(***************************************************************************)
(* Properties of interrupted imports.                                      *)
(***************************************************************************)
IsPrefix(s, t) == Len(s) <= Len(t) /\ SubSeq(t, 1, Len(s)) = s

\* C14: no step removes or changes a committed row, and when import_file has
\* been interrupted in its loop (stopped, or left by an exception), the rows
\* its run has added to the table are whole batches: together with the batch
\* that was being filled they are the records the run has appended so far,
\* and no record of that batch is in the table.
C14_InterruptKeepsWholeBatches ==
    [][/\ IsPrefix(transactions, transactions')
       /\ IsPrefix(data_points, data_points')
       /\ pc[1] \in {"interrupted", "raised"} =>
             LET c == conn[1]
                 T == Table(c)
             IN  /\ (Len(T) - Len(TableAtStart(c))) % BatchSize = 0
                 /\ T \o batch[1] =
                       StoreAfterImport(c, TableAtStart(c), <<>>,
                                        WellFormedRows(c, SubSeq(file[1], 1, pos[1] - 1)))
                 /\ \A k \in DOMAIN batch[1] : \A i \in DOMAIN T : T[i] # batch[1][k]]_vars

\* An import is interrupted after it has committed a batch, with a record in
\* the batch being filled.
C14_Witness ==
    /\ pc[1] = "interrupted"
    /\ Len(Table(conn[1])) = Len(TableAtStart(conn[1])) + BatchSize
    /\ batch[1] # <<>>

C16_StoreOnlyGrows ==
    [][/\ Len(transactions) <= Len(transactions')
       /\ \A i \in DOMAIN transactions : transactions'[i] = transactions[i]
       /\ Len(data_points) <= Len(data_points')
       /\ \A i \in DOMAIN data_points : data_points'[i] = data_points[i]]_vars

\* A Peloton sync has returned after the list reported a workout whose id was
\* stored before the run with another duration.
C16_Witness ==
    /\ pc[1] = "done"
    /\ conn[1] = "peloton"
    /\ \E k \in DOMAIN file[1] : \E i \in DOMAIN file[1][k] :
          /\ ~file[1][k][i].old
          /\ \E j \in 1..count0[1][2] :
                /\ data_points[j].source = "peloton"
                /\ data_points[j].source_id = file[1][k][i].id
                /\ data_points[j].value # file[1][k][i].duration

\* C17: whatever syncs of an API connector have run one after the other,
\* the store holds at most one DataPoint and at most one Transaction for each
\* (source, source_id) pair.
C17_OneRecordPerSourceId ==
    /\ \A i, j \in DOMAIN data_points :
          (data_points[i].source = data_points[j].source
           /\ data_points[i].source_id = data_points[j].source_id) => i = j
    /\ \A i, j \in DOMAIN transactions :
          (transactions[i].source = transactions[j].source
           /\ transactions[i].source_id = transactions[j].source_id) => i = j

\* A later sync has returned after it found an id of its response stored by
\* an earlier sync.
C17_Witness ==
    /\ pc[1] = "done"
    /\ conn[1] \in {"peloton", "tonal", "simplefin"}
    /\ skipped[1] > 0
    /\ count0[1] # <<0, 0>>

\* The source ids of the facts _save_workout derives from a Peloton workout.
PelotonFactIds(workout) ==
    {workout.id}
    \cup (IF workout.calories # 0 THEN {PelotonCalId(workout.id)} ELSE {})
    \cup (IF workout.distance # 0 THEN {PelotonDistId(workout.id)} ELSE {})
    \cup (IF workout.avg_heart_rate # 0 THEN {PelotonHrId(workout.id)} ELSE {})

\* C18: when a Peloton sync handles a workout of its list whose details it
\* can fetch, each fact of the workout (the workout record, calories,
\* distance, average heart rate) is added exactly when the session holds no
\* Peloton record with that fact's own source id, whatever other facts of the
\* workout are stored.
C18_DerivedFactsIndependentlyIdempotent ==
    [][(/\ pc[1] = "loop"
        /\ conn[1] = "peloton"
        /\ pos'[1] = pos[1] + 1
        /\ ~file[1][page + 1][pos[1]].old
        /\ file[1][page + 1][pos[1]].details_ok)
       => \A sid \in PelotonFactIds(file[1][page + 1][pos[1]]) :
             (\E i \in (Len(pending) + 1)..Len(pending') :
                 pending'[i].source = "peloton" /\ pending'[i].source_id = sid)
             <=> ~(\E i \in DOMAIN SessionView :
                      SessionView[i].source = "peloton" /\ SessionView[i].source_id = sid)]_vars

\* C20: a run_sync during which an API call failed (authentication, or a
\* non-200 response to a data fetch) ends by raising, with the SyncLog of the
\* run set to failed and carrying an error message; it never ends with the
\* log set to success.
C20_ApiFailureIsLoggedFailed ==
    (pc[1] \in {"done", "failed"} /\ api_errors # {})
    => (pc[1] = "failed" /\ log.status = "failed" /\ log.error_message # "")

\* C19: generate_transaction_id returns 16 hex digits, and the ids of two
\* triples (date, amount, description) are equal exactly when the triples
\* are equal: the same triple gives the same id, triples that differ in the
\* date, the amount or the description give different ids.
C19_FingerprintDeterministicAndInjective ==
    call = "generate_transaction_id"
    => /\ Len(result[1]) = 16 /\ Len(result[2]) = 16
       /\ \A i \in 1..16 : \E d \in DOMAIN HexDigits : result[1][i] = HexDigits[d]
       /\ (result[1] = result[2]) <=> (query[1] = query[2])

\* The ids of two triples that differ in the description only, one of them
\* holding the delimiter "|", have been computed.
C19_Witness ==
    /\ call = "generate_transaction_id"
    /\ query[1].date = query[2].date
    /\ query[1].amount = query[2].amount
    /\ query[1].description = <<"|">>
    /\ query[2].description # <<"|">>
    /\ result[1] # result[2]

\* The winners and values of a list of bucket entries.
WinnersAndValues(entries) ==
    [n \in DOMAIN entries |-> <<entries[n].source, entries[n].value>>]

\* C21: whatever order the SELECT returns the matching rows in (rows with
\* equal timestamps may come in any order), deduplicate_daily_totals returns
\* the same rows and deduplicate_records_by_priority the same bucket winners
\* and values.
C21_ResultIndependentOfFetchOrder ==
    /\ call = "deduplicate_daily_totals"
          => \A records \in FetchOrders(query.data_type, query.start_date, query.end_date) :
                deduplicate_daily_totals(records, query.data_type) = result
    /\ call = "deduplicate_records_by_priority"
          => \A records \in FetchOrders(query.data_type, query.start_date, query.end_date) :
                WinnersAndValues(deduplicate_records_by_priority(records, query.data_type,
                                                                 query.bucket_minutes))
                    = WinnersAndValues(result)

(***************************************************************************)
(* SpecRollup: the three functions of dedup.py that build hour buckets     *)
(* (deduplicate_daily_totals and its two callers), called on the stores of *)
(* SpecAgg.                                                                *)
(***************************************************************************)
NextRollup ==
    \/ \E data_type \in QueryTypes, start_date \in QueryStarts, end_date \in QueryEnds :
          \/ deduplicate_daily_totals_call(data_type, start_date, end_date)
          \/ get_deduplicated_total_call(data_type, start_date, end_date)
          \/ get_daily_average_call(data_type, start_date, end_date)
    \/ AggReturn

SpecRollup == InitAgg /\ [][NextRollup]_vars

\* All orders of the records of a sequence.
IterationOrders(records) ==
    LET n == Len(records)
    IN  {[i \in 1..n |-> records[f[i]]] :
            f \in {g \in [1..n -> 1..n] : \A i, j \in 1..n : g[i] = g[j] => i = j}}

\* The sources of the records of hour bucket k among records.
SourcesIn(records, k) == {records[i].source : i \in {j \in DOMAIN records : HourKey(records[j]) = k}}

\* C22: in an hour bucket in which one source has a strictly higher priority
\* than every other source present, every order of iterating the fetched
\* records gives the bucket the same winner and the same value.
C22_UniqueTopSourceWinsInEveryOrder ==
    call \in RollupCalls =>
        LET buckets == LastBuckets
            one_top == {n \in DOMAIN buckets :
                          LET sources == SourcesIn(fetched, buckets[n].key)
                          IN  \E top \in sources :
                                 \A src \in sources \ {top} : Priority(top) > Priority(src)}
        IN  one_top # {} =>
                \A records \in IterationOrders(fetched) :
                    LET other == hourly_buckets(records, query.data_type)
                    IN  \A n \in one_top :
                            \E m \in DOMAIN other :
                               /\ other[m].key = buckets[n].key
                               /\ other[m].source = buckets[n].source
                               /\ other[m].value = buckets[n].value

\* The lower-priority source had two records in the bucket before the first
\* record of the higher-priority source was iterated.
C22_Witness ==
    /\ call = "deduplicate_daily_totals"
    /\ Len(fetched) = 3
    /\ HourKey(fetched[1]) = HourKey(fetched[3])
    /\ HourKey(fetched[2]) = HourKey(fetched[3])
    /\ fetched[1].source = fetched[2].source
    /\ Priority(fetched[1].source) < Priority(fetched[3].source)
    /\ result[1].total = fetched[3].value

\* The positions in fetched of the records of hour bucket k.
FetchedInBucket(k) == {i \in DOMAIN fetched : HourKey(fetched[i]) = k}

RECURSIVE FetchedValueSum(_)
FetchedValueSum(I) ==
    IF I = {} THEN 0
    ELSE LET i == CHOOSE x \in I : TRUE IN fetched[i].value + FetchedValueSum(I \ {i})

\* C23: in an hour bucket whose highest priority is shared by two or more
\* sources, the winner is the source of the first iterated record of that
\* priority, the value is the sum of that source's records in the bucket, and
\* the records of the other sources add nothing.
C23_FirstIteratedOfEqualPriorityWins ==
    call \in RollupCalls =>
        LET buckets == LastBuckets
        IN  \A n \in DOMAIN buckets :
                LET I == FetchedInBucket(buckets[n].key)
                    top == {i \in I : \A j \in I : Priority(fetched[i].source)
                                                       >= Priority(fetched[j].source)}
                    first == CHOOSE i \in top : \A j \in top : i <= j
                IN  Cardinality({fetched[i].source : i \in top}) >= 2
                    => /\ buckets[n].source = fetched[first].source
                       /\ buckets[n].value =
                             FetchedValueSum({i \in I : fetched[i].source = fetched[first].source})

\* Two sources at the default priority share a bucket; the winner has a
\* record before and a record after the record of the other source.
C23_Witness ==
    /\ call = "deduplicate_daily_totals"
    /\ Len(fetched) = 3
    /\ HourKey(fetched[1]) = HourKey(fetched[2])
    /\ HourKey(fetched[2]) = HourKey(fetched[3])
    /\ fetched[1].source = fetched[3].source
    /\ fetched[1].source # fetched[2].source
    /\ Priority(fetched[1].source) = DEFAULT_PRIORITY
    /\ Priority(fetched[2].source) = DEFAULT_PRIORITY
    /\ result[1].total = fetched[1].value + fetched[3].value

\* datetime <: year, month, day, hour, minute compared in that order.
TsBefore(a, b) ==
    LET x == <<a.date[1], a.date[2], a.date[3], a.hour, a.minute>>
        y == <<b.date[1], b.date[2], b.date[3], b.hour, b.minute>>
    IN  \E n \in 1..5 : x[n] < y[n] /\ \A m \in 1..(n - 1) : x[m] = y[m]

\* How many times the record rec occurs in the sequence s.
Occurrences(s, rec) == Cardinality({i \in DOMAIN s : s[i] = rec})

\* The result of the last call computed again from the records it fetched.
Recomputed ==
    CASE call = "deduplicate_daily_totals" ->
             deduplicate_daily_totals(fetched, query.data_type)
      [] call = "get_deduplicated_total" ->
             get_deduplicated_total(fetched, query.data_type, query.start_date, query.end_date)
      [] call = "get_daily_average" ->
             get_daily_average(fetched, query.data_type, query.start_date, query.end_date)
      [] call = "deduplicate_records_by_priority" ->
             deduplicate_records_by_priority(fetched, query.data_type, query.bucket_minutes)

\* C24: an aggregation reads exactly the stored records of the requested
\* data type whose timestamp lies between start and end, both included (a
\* record at start or at end is read, a record of another type, before
\* start or after end is not), and its result is computed from those records
\* alone.
C24_ResultFromRecordsInRangeOnly ==
    call \in RollupCalls \cup {"deduplicate_records_by_priority"} =>
        /\ \A i \in DOMAIN data_points :
              Occurrences(fetched, data_points[i]) =
                 IF /\ data_points[i].data_type = query.data_type
                    /\ ~TsBefore(data_points[i].timestamp, query.start_date)
                    /\ ~TsBefore(query.end_date, data_points[i].timestamp)
                 THEN Occurrences(data_points, data_points[i])
                 ELSE 0
        /\ \A i \in DOMAIN fetched : \E j \in DOMAIN data_points : data_points[j] = fetched[i]
        /\ result = Recomputed

\* The store holds a record before start, one exactly at start and one
\* exactly at end; the call counted the last two.
C24_Witness ==
    /\ call = "get_deduplicated_total"
    /\ Len(data_points) = 3
    /\ \E i, j, k \in DOMAIN data_points :
          /\ data_points[i].data_type = query.data_type
          /\ TsBefore(data_points[i].timestamp, query.start_date)
          /\ data_points[j].data_type = query.data_type
          /\ data_points[j].timestamp = query.start_date
          /\ data_points[k].data_type = query.data_type
          /\ data_points[k].timestamp = query.end_date
    /\ Len(fetched) = 2
    /\ result = fetched[1].value + fetched[2].value

\* floor(minutes of the timestamp / bucket_minutes) of the last call.
BucketIndex(rec) == TsMinutes(rec.timestamp) \div query.bucket_minutes

\* The positions in fetched of the records of bucket b; of bucket b and
\* source src.
FetchedInIndex(b) == {i \in DOMAIN fetched : BucketIndex(fetched[i]) = b}
FetchedInIndexOf(b, src) == {i \in FetchedInIndex(b) : fetched[i].source = src}

\* C25: deduplicate_records_by_priority returns one entry for each bucket
\* index floor(minutes / bucket_minutes) that a matching record has, in
\* ascending order of the index; the entry carries a source of highest
\* priority in the bucket, the sum of that source's records in the bucket,
\* and the timestamp and unit of the first of them.
C25_OneEntryPerBucketAscending ==
    call = "deduplicate_records_by_priority" =>
        LET indexes == {BucketIndex(data_points[i]) : i \in QueryMatches}
        IN  /\ Len(result) = Cardinality(indexes)
            /\ \E f \in [DOMAIN result -> indexes] :
                  /\ \A n, m \in DOMAIN result : n < m => f[n] < f[m]
                  /\ \A n \in DOMAIN result :
                        LET mine == FetchedInIndexOf(f[n], result[n].source)
                        IN  /\ mine # {}
                            /\ \A i \in FetchedInIndex(f[n]) :
                                  Priority(result[n].source) >= Priority(fetched[i].source)
                            /\ result[n].value = FetchedValueSum(mine)
                            /\ LET first == CHOOSE i \in mine : \A j \in mine : i <= j
                               IN  /\ result[n].timestamp = fetched[first].timestamp
                                   /\ result[n].unit = fetched[first].unit

\* With 30-minute buckets two records of one hour fall into different
\* buckets, and the second bucket's winner replaced a lower-priority record.
C25_Witness ==
    /\ call = "deduplicate_records_by_priority"
    /\ query.bucket_minutes = 30
    /\ Len(fetched) = 3
    /\ Len(result) = 2
    /\ fetched[1].timestamp.hour = fetched[2].timestamp.hour
    /\ BucketIndex(fetched[1]) # BucketIndex(fetched[2])
    /\ BucketIndex(fetched[2]) = BucketIndex(fetched[3])
    /\ Priority(fetched[2].source) < Priority(fetched[3].source)
    /\ result[2].source = fetched[3].source

\* Rows committed to either table since the run of process 1 started.
NewlyPersisted ==
    (Len(transactions) - count0[1][1]) + (Len(data_points) - count0[1][2])

\* C26: when a batched run (csv import, Apple Health import, SimpleFIN sync)
\* returns normally, the number of rows it committed equals the added count
\* it returns, and nothing is left in its batch.
C26_PersistedEqualsAddedCount ==
    pc[1] = "done" => /\ NewlyPersisted = added[1]
                      /\ batch[1] = <<>>

\* A run returned after adding more rows than one batch holds: one flush
\* inside the loop and the final flush.
C26_Witness ==
    /\ pc[1] = "done"
    /\ added[1] > BatchSize
    /\ added[1] % BatchSize # 0
    /\ NewlyPersisted = added[1]

\* The other sizes of a run: nothing added from a non-empty file, fewer rows
\* than a batch, an exact multiple of the batch size.
C26_WitnessZero == pc[1] = "done" /\ file[1] # <<>> /\ added[1] = 0
C26_WitnessBelowBatch == pc[1] = "done" /\ added[1] > 0 /\ added[1] < BatchSize
C26_WitnessExactBatch == pc[1] = "done" /\ added[1] = BatchSize

(***************************************************************************)
(* SpecLog: the SyncLog of a run, under run_sync (the API connectors of    *)
(* SpecApi) and under FileImportConnector.run_import (csv, Apple Health).  *)
(* log is the SyncLog row of the current or last run.                      *)
(***************************************************************************)
\* run_import up to the first loop iteration of import_file: _start_sync,
\* then the counters and the batch are initialised.
FileImportConnector_run_import(f) ==
    /\ pc[1] = "idle"
    /\ conn[1] \in {"csv_chase", "apple_health"}
    /\ pc' = [pc EXCEPT ![1] = "loop"]
    /\ log' = BaseConnector_start_sync
    /\ api_errors' = {}
    /\ file' = [file EXCEPT ![1] = f]
    /\ pos' = [pos EXCEPT ![1] = 1]
    /\ batch' = [batch EXCEPT ![1] = <<>>]
    /\ added' = [added EXCEPT ![1] = 0]
    /\ skipped' = [skipped EXCEPT ![1] = 0]
    /\ count0' = [count0 EXCEPT ![1] = <<Len(transactions), Len(data_points)>>]
    /\ UNCHANGED <<transactions, data_points, conn, reimport, writer, pending, page>>
    /\ UNCHANGED aggVars

\* One iteration of the loop of CSVBankConnector.import_file under
\* run_import: the AttributeError of a short row reaches "except Exception",
\* _fail_sync sets the log and the exception is re-raised.  The batch was
\* never added to the session, so the commit of _fail_sync stores no row.
FileImportConnector_run_import_row ==
    /\ pc[1] = "loop"
    /\ conn[1] = "csv_chase"
    /\ pos[1] <= Len(file[1])
    /\ IF CsvRaises(file[1][pos[1]])
       THEN /\ pc' = [pc EXCEPT ![1] = "failed"]
            /\ log' = BaseConnector_fail_sync(log, "AttributeError")
            /\ pos' = [pos EXCEPT ![1] = @ + 1]
            /\ UNCHANGED <<transactions, data_points, conn, file, batch, added, skipped,
                           reimport, count0, writer, pending, api_errors, page>>
            /\ UNCHANGED aggVars
       ELSE CSVBankConnector_import_file_row(1)

\* One iteration of the loop of AppleHealthConnector.import_file under run_import.
FileImportConnector_run_import_record ==
    /\ conn[1] = "apple_health"
    /\ AppleHealthConnector_import_file_record(1)

\* The flush inside the loop of import_file under run_import.
FileImportConnector_run_import_flush ==
    /\ conn[1] \in {"csv_chase", "apple_health"}
    /\ FlushBatch(1)

\* After the loop: final flush, import_file returns (added, skipped) and
\* _complete_sync sets the log.
FileImportConnector_run_import_return ==
    /\ pc[1] = "loop"
    /\ conn[1] \in {"csv_chase", "apple_health"}
    /\ pos[1] > Len(file[1])
    /\ IF batch[1] # <<>>
       THEN AddAllCommit(1)
       ELSE UNCHANGED <<transactions, data_points, writer>>
    /\ batch' = [batch EXCEPT ![1] = <<>>]
    /\ pc' = [pc EXCEPT ![1] = "done"]
    /\ log' = BaseConnector_complete_sync(log, added[1], skipped[1])
    /\ UNCHANGED <<conn, file, pos, added, skipped, reimport, count0, pending, api_errors,
                   page>>
    /\ UNCHANGED aggVars

\* KeyboardInterrupt (Ctrl-C) inside the loop: it is a BaseException, not an
\* Exception, so "except Exception" of run_import / run_sync does not catch
\* it; it propagates to the caller and _fail_sync is not called.
BaseConnector_run_keyboard_interrupt ==
    /\ conn[1] \in {"csv_chase", "apple_health", "simplefin"}
    /\ Interrupt(1)

\* The caller has seen the KeyboardInterrupt; the session is closed.
InterruptedReturn ==
    /\ pc[1] = "interrupted"
    /\ pc' = [pc EXCEPT ![1] = "idle"]
    /\ file' = [file EXCEPT ![1] = <<>>]
    /\ pos' = [pos EXCEPT ![1] = 1]
    /\ batch' = [batch EXCEPT ![1] = <<>>]
    /\ added' = [added EXCEPT ![1] = 0]
    /\ skipped' = [skipped EXCEPT ![1] = 0]
    /\ count0' = [count0 EXCEPT ![1] = <<0, 0>>]
    /\ log' = NoLog
    /\ api_errors' = {}
    /\ page' = 0
    /\ pending' = <<>>
    /\ UNCHANGED <<transactions, data_points, conn, reimport, writer>>
    /\ UNCHANGED aggVars

InitLog ==
    /\ EmptyStore
    /\ RunsIdle
    /\ AggIdle
    /\ ApiIdle
    /\ \E c \in ApiConnectors \cup {"csv_chase", "apple_health"} : conn = [p \in Procs |-> c]

NextLog ==
    \/ NextApi
    \/ \E f \in SeqsUpTo(MalformedRows(conn[1]), MaxFileLen) : FileImportConnector_run_import(f)
    \/ FileImportConnector_run_import_row
    \/ FileImportConnector_run_import_record
    \/ FileImportConnector_run_import_flush
    \/ FileImportConnector_run_import_return
    \/ BaseConnector_run_keyboard_interrupt
    \/ InterruptedReturn

SpecLog == InitLog /\ [][NextLog]_vars

\* The run of process 1 is over: run_sync / run_import has returned or raised.
RunOver == pc[1] \in {"done", "failed", "interrupted"}

\* C27: the SyncLog of a run starts "running" and changes once, to "success"
\* with the counts the connector returned or to "failed" with an error
\* message; completed_at is set exactly when the status is not "running";
\* once run_sync / run_import has returned or raised, the log is not
\* "running".
C27_LogRunningThenSuccessOrFailedOnce ==
    /\ [](/\ log.status \in {"none", "running", "success", "failed"}
          /\ (log.completed_at # "None") <=> (log.status \in {"success", "failed"})
          /\ log.status = "success" =>
                (log.records_added = added[1] /\ log.records_updated = skipped[1])
          /\ log.status = "failed" => log.error_message # ""
          /\ RunOver => log.status \in {"success", "failed"})
    /\ [][/\ (log.status = "running" /\ log' # log) =>
                log'.status \in {"success", "failed"}
          /\ (log.status \in {"success", "failed"} /\ log' # log) =>
                (log' = NoLog /\ pc'[1] = "idle")
          /\ (log.status = "none" /\ log' # log) =>
                (log'.status = "running" \/ (log'.status = "failed" /\ pc'[1] = "failed"))]_vars

\* The same for the runs that end by returning or by an Exception: the part
\* of C27 that the code keeps.
C27_LogOfRunsEndedByReturnOrException ==
    /\ [](/\ (log.completed_at # "None") <=> (log.status \in {"success", "failed"})
          /\ log.status = "success" =>
                (log.records_added = added[1] /\ log.records_updated = skipped[1])
          /\ log.status = "failed" => log.error_message # ""
          /\ pc[1] \in {"done", "failed"} => log.status \in {"success", "failed"})
    /\ [][(log.status = "running" /\ log' # log /\ pc'[1] # "idle") =>
                log'.status \in {"success", "failed"}]_vars

\* C28: the step in which sync raises and run_sync records the failure
\* stores nothing: the records added to the session and not yet committed
\* by the connector are not persisted by _fail_sync.
C28_FailureDoesNotCommitPending ==
    [][(pc[1] # "failed" /\ pc'[1] = "failed")
          => (data_points' = data_points /\ transactions' = transactions)]_vars

(***************************************************************************)
(* SpecPaging: Peloton and Tonal syncs against an API that has more pages  *)
(* than the safety limits allow to read.  Every workout of the long        *)
(* responses is one the sync stores nothing for (its details request       *)
(* fails, or it is older than since).                                      *)
(***************************************************************************)
\* Pages (Peloton) / full pages (Tonal) the API has beyond the last one the
\* safety limit lets the sync read.
MaxExtraPages == 1

\* n non-empty pages of one workout each (its details request fails, or it
\* is older than since); the API answers an empty page from index n on.
PelotonLongResponses ==
    LET unsaved == PelotonWorkout(<<"w1">>, FALSE, FALSE, 30, 3, 2, 4)
        old == PelotonWorkout(<<"w2">>, TRUE, TRUE, 30, 3, 0, 0)
    IN  {[i \in 1..n |-> <<w>>] : n \in 0..(PelotonSafetyLimit + 1 + MaxExtraPages),
                                  w \in {unsaved, old}}

\* The workouts of the account, served by offset: whole pages or one workout
\* less; at most one workout, the first of the second page, is older than
\* since, the details request of the others fails.
TonalLongResponses ==
    LET unsaved == TonalWorkout(<<"t1">>, FALSE, FALSE, 30, <<0, 5>>, 3)
        old == TonalWorkout(<<"t2">>, TRUE, TRUE, 30, <<5>>, 0)
        pages == (TonalSafetyLimit \div TonalLimit) + 1 + MaxExtraPages
        lens == {n \in {k * TonalLimit - d : k \in 0..pages, d \in {0, 1}} : n >= 0}
    IN  {[i \in 1..n |-> IF i = old_at THEN old ELSE unsaved] :
            n \in lens, old_at \in {0, TonalLimit + 1}}

InitPaging ==
    /\ EmptyStore
    /\ RunsIdle
    /\ AggIdle
    /\ ApiIdle
    /\ \E c \in {"peloton", "tonal"} : conn = [p \in Procs |-> c]

NextPaging ==
    \/ \E f \in PelotonLongResponses : PelotonConnector_run_sync(f)
    \/ PelotonConnector_fetch_workouts_fails
    \/ PelotonConnector_fetch_workouts
    \/ PelotonConnector_sync_workout
    \/ PelotonConnector_sync_page_end
    \/ \E f \in TonalLongResponses : TonalConnector_run_sync(f)
    \/ TonalConnector_fetch_workouts_fails
    \/ TonalConnector_fetch_workouts
    \/ TonalConnector_sync_workout
    \/ TonalConnector_sync_page_end
    \/ ApiReturn

\* A started sync keeps executing: the interpreter takes the next step of
\* the loop, and every request is answered (200 or not) within its timeout.
SpecPaging == InitPaging /\ [][NextPaging]_vars /\ WF_vars(NextPaging)

\* C29: every Peloton / Tonal sync ends.  A page is fetched only with a page
\* index in 0..50 (Peloton) or an offset in 0, 50, .., 500 (Tonal), and the
\* index grows from one fetch to the next, so that a run fetches at most 51
\* resp. 11 pages; Tonal goes on to a next fetch only after a page of 50
\* workouts none of which is older than since.
C29_PagingIsBoundedAndTerminates ==
    /\ []((pc[1] = "fetch" /\ conn[1] = "peloton") => page \in 0..50)
    /\ []((pc[1] = "fetch" /\ conn[1] = "tonal") => page \in {50 * k : k \in 0..10})
    /\ [][(pc[1] = "loop" /\ pc'[1] = "fetch") =>
             /\ page' > page
             /\ conn[1] = "tonal" =>
                   LET workouts == TonalPage(file[1], page)
                   IN  /\ Len(workouts) >= 50
                       /\ \A i \in DOMAIN workouts : ~workouts[i].old]_vars
    /\ [][(pc[1] = "fetch" /\ pc'[1] = "loop") => page' = page]_vars
    /\ (pc[1] \in {"fetch", "loop"}) ~> (pc[1] \in {"done", "failed"})

\* A Peloton sync ended by the safety limit after the page of index 50,
\* though the API had more non-empty pages.
C29_Witness ==
    /\ conn[1] = "peloton"
    /\ pc[1] = "done"
    /\ page = 51
    /\ Len(file[1]) > 51

\* A Tonal sync ended by the safety limit after the page at offset 500,
\* though the account had more workouts.
C29_WitnessTonal ==
    /\ conn[1] = "tonal"
    /\ pc[1] = "done"
    /\ page = 550
    /\ Len(file[1]) > 550

\* A Tonal sync ended after its second page because it held an old workout.
C29_WitnessTonalOld ==
    /\ conn[1] = "tonal"
    /\ pc[1] = "done"
    /\ page = 50
    /\ Len(file[1]) > 100
    /\ file[1][51].old

(***************************************************************************)
(* SpecResume: imports that may be interrupted, each interrupted import    *)
(* followed by a new import of the same file on the same store.            *)
(***************************************************************************)
\* import_file is called again with the file of the interrupted run, by the
\* same connector: counters and batch initialised as at every entry.
\* reimport marks the run, and count0 keeps the table sizes from before the
\* interrupted run (the initial store).
ImportAgainAfterInterrupt(p) ==
    /\ pc[p] = "interrupted"
    /\ pc' = [pc EXCEPT ![p] = "loop"]
    /\ pos' = [pos EXCEPT ![p] = 1]
    /\ batch' = [batch EXCEPT ![p] = <<>>]
    /\ added' = [added EXCEPT ![p] = 0]
    /\ skipped' = [skipped EXCEPT ![p] = 0]
    /\ reimport' = [reimport EXCEPT ![p] = TRUE]
    /\ UNCHANGED <<transactions, data_points, writer, conn, file, count0>>
    /\ UNCHANGED aggVars
    /\ UNCHANGED apiVars

\* An import left by Return after "done" or "raised" only: an interrupted
\* one is followed by the import of the same file.
ReturnCompleted(p) ==
    /\ pc[p] \in {"done", "raised"}
    /\ Return(p)

NextResume ==
    \/ \E f \in SeqsUpTo(MalformedRows(conn[1]), MaxFileLen) :
          pc[1] = "idle" /\ StartRun(1, conn[1], f)
    \/ ReturnCompleted(1)
    \/ CSVBankConnector_import_file_row(1)
    \/ AppleHealthConnector_import_file_record(1)
    \/ FlushBatch(1)
    \/ FinishRun(1)
    \/ Interrupt(1)
    \/ ImportAgainAfterInterrupt(1)

SpecResume == InitImport /\ [][NextResume]_vars

\* The records of a table, as a set.
RecordSet(table) == {table[i] : i \in DOMAIN table}

\* C30: when an import that follows interrupted imports of the same file has
\* run to completion, the table holds the set of records (and the very rows)
\* that one uninterrupted import of the file into the initial store yields.
C30_ImportAfterInterruptEqualsOneImport ==
    (pc[1] = "done" /\ reimport[1]) =>
        LET c == conn[1]
            once == StoreAfterImport(c, TableAtStart(c), <<>>, WellFormedRows(c, file[1]))
        IN  /\ RecordSet(Table(c)) = RecordSet(once)
            /\ Table(c) = once

\* The interrupted run had committed a batch and lost the batch it was
\* filling: the second import skipped a batch of rows and added a record.
C30_Witness ==
    /\ pc[1] = "done"
    /\ reimport[1]
    /\ TableAtStart(conn[1]) = <<>>
    /\ skipped[1] >= BatchSize
    /\ added[1] > 0
    /\ Len(Table(conn[1])) > BatchSize

====
